---- MODULE Spec2Model ----
(***************************************************************************)
(* Model of the machine-health reasoning engine                            *)
(* (src/backend/reasoning_engine.py, class MachineHealthReasoner).         *)
(*                                                                         *)
(* Numbers.  Sensor samples, thresholds and forecasts are integers in      *)
(* tenths of the physical unit (66.0 degrees C is 660, 3.2 mm/s is 32,     *)
(* 1100 RPM is 11000); anomaly-model scores are integers in hundredths     *)
(* (-0.15 is -15).  Means, slopes and strengths are kept as exact          *)
(* fractions [num, den] and every comparison the code makes on them is     *)
(* made by cross-multiplication, so a comparison has the outcome it has    *)
(* in exact arithmetic.                                                    *)
(*                                                                         *)
(* Dictionaries are functions whose DOMAIN is the set of keys present; a   *)
(* key that is absent is what d.get(key) sees as None.  An optional value  *)
(* that is stored in a result is kept as a sequence of length 0 or 1.      *)
(***************************************************************************)
EXTENDS Integers, Sequences, FiniteSets, TLC

VARIABLES
    thresholds,            \* self.thresholds
    conversation_history,  \* self.conversation_history
    last_analysis,         \* self.last_analysis: <<>> is None, else <<analysis>>
    sensor_data,           \* argument of the analyze call in hand
    ml_outputs,            \* argument of the analyze call in hand
    question,              \* argument of the analyze call in hand
    result,                \* what that call returned: <<>> before it returns
    previous,              \* <<>>, or <<[sensor_data, ml_outputs, question, ret]>> of the call before
    pc,                    \* position of the caller
    threads                \* callers running analyze at once: arguments, locals and position of each

vars == <<thresholds, conversation_history, last_analysis,
          sensor_data, ml_outputs, question, result, previous, pc, threads>>

(***************************************************************************)
(* Basic helpers                                                           *)
(***************************************************************************)

\* The order in which every per-parameter loop of the engine runs.
ParamOrder == <<"temperature", "vibration", "speed">>

Params == {ParamOrder[i] : i \in 1..Len(ParamOrder)}

\* float('nan') among the samples: an integer no sample takes.
NaN == 0 - 999999

isnan(v) == v = NaN

\* dict.get(key, default)
Get(d, k, default) == IF k \in DOMAIN d THEN d[k] ELSE default

Abs(n) == IF n < 0 THEN -n ELSE n

Min2(a, b) == IF a <= b THEN a ELSE b

RECURSIVE SeqSum(_)
SeqSum(s) == IF s = <<>> THEN 0 ELSE s[1] + SeqSum(Tail(s))

RECURSIVE SeqMax(_)
SeqMax(s) == IF Len(s) = 1 THEN s[1]
             ELSE LET m == SeqMax(Tail(s)) IN IF s[1] >= m THEN s[1] ELSE m

RECURSIVE SeqMin(_)
SeqMin(s) == IF Len(s) = 1 THEN s[1]
             ELSE LET m == SeqMin(Tail(s)) IN IF s[1] <= m THEN s[1] ELSE m

\* s[-k:] of Python
LastN(s, k) == IF Len(s) <= k THEN s ELSE SubSeq(s, Len(s) - k + 1, Len(s))

\* [v for v in values if not np.isnan(v) and v is not None]
Clean(values) == SelectSeq(values, LAMBDA v : ~isnan(v))

\* sum of i * s[i+1] for the regression abscissa x = 0, 1, ..., n-1
RECURSIVE WeightedSum(_, _)
WeightedSum(s, i) == IF s = <<>> THEN 0 ELSE i * s[1] + WeightedSum(Tail(s), i + 1)

\* f > k for a fraction f = [num, den], den > 0, and an integer k
FracGt(f, k) == f.num > k * f.den

(***************************************************************************)
(* __init__                                                                *)
(***************************************************************************)

InitThresholds ==
    [temperature |-> [normal |-> 650,   high |-> 850,   critical |-> 950],
     vibration   |-> [normal |-> 30,    high |-> 70,    critical |-> 100],
     speed       |-> [normal |-> 11500, high |-> 13500, critical |-> 15000]]

\* The instance as the methods see it.
Self == [thresholds |-> thresholds,
         conversation_history |-> conversation_history,
         last_analysis |-> last_analysis]

FreshSelf == [thresholds |-> InitThresholds,
              conversation_history |-> <<>>,
              last_analysis |-> <<>>]

(***************************************************************************)
(* _extract_current_state                                                  *)
(***************************************************************************)

\* StatusOf with every >= written as >: a reading on a bound falls into
\* the band below.
StatusOfStrict(th, current) ==
    IF current > th.critical THEN "critical"
    ELSE IF current > th.high THEN "high"
    ELSE IF current > th.normal THEN "warning"
    ELSE "normal"

\* The if/elif chain that determines status.
StatusOf(th, current) ==
    IF current >= th.critical THEN "critical"
    ELSE IF current >= th.high THEN "high"
    ELSE IF current >= th.normal THEN "warning"
    ELSE "normal"

\* The entry state[param] built from the cleaned window.
\* recent_avg is the exact mean as a fraction; volatility is 0 below ten
\* samples and otherwise n^2 times the population variance of the last ten
\* (np.std is the square root of that over n), computed on the samples less
\* their minimum, which leaves a variance as it is.
ParamState(self, param, clean_values) ==
    LET recent  == LastN(clean_values, 10)
        current == clean_values[Len(clean_values)]
        n       == Len(recent)
    IN  [current    |-> current,
         recent_avg |-> [num |-> SeqSum(recent), den |-> n],
         recent_max |-> SeqMax(recent),
         recent_min |-> SeqMin(recent),
         status     |-> StatusOf(self.thresholds[param], current),
         volatility |-> IF Len(clean_values) >= 10
                        THEN LET d == [i \in 1..n |-> recent[i] - SeqMin(recent)]
                             IN  n * SeqSum([i \in 1..n |-> d[i] * d[i]])
                                 - SeqSum(d) * SeqSum(d)
                        ELSE 0]

\* Parameters that get an entry: window present, non-empty, and non-empty
\* after cleaning.
StateParams(sd) ==
    {p \in Params : p \in DOMAIN sd /\ sd[p] # <<>> /\ Clean(sd[p]) # <<>>}

_extract_current_state(self, sd) ==
    [p \in StateParams(sd) |-> ParamState(self, p, Clean(sd[p]))]

(***************************************************************************)
(* _analyze_trends                                                         *)
(***************************************************************************)

InsufficientData == [direction |-> "unknown",
                     strength |-> [num |-> 0, den |-> 1],
                     description |-> "Insufficient data"]

\* np.polyfit(x, recent, 1)[0] with x = 0..n-1, in tenths per sample:
\* (n*Sxy - Sx*Sy) / (n*Sxx - Sx*Sx).
Slope(recent) ==
    LET n   == Len(recent)
        Sx  == (n * (n - 1)) \div 2
        Sxx == SeqSum([i \in 1..n |-> (i - 1) * (i - 1)])
        Sy  == SeqSum(recent)
        Sxy == WeightedSum(recent, 0)
    IN  [num |-> n * Sxy - Sx * Sy, den |-> n * Sxx - Sx * Sx]

\* min(abs(slope) * 10, 10), slope in units per sample = Slope/10.
Strength(slope) ==
    IF Abs(slope.num) >= 10 * slope.den
    THEN [num |-> 10, den |-> 1]
    ELSE [num |-> Abs(slope.num), den |-> slope.den]

\* The classification of a slope (lines 168-193).
TrendOf(slope) ==
    IF Abs(slope.num) < slope.den            \* abs(slope) < 0.1
    THEN [direction |-> "stable", strength |-> [num |-> 0, den |-> 1],
          slope |-> slope, description |-> "is stable"]
    ELSE IF slope.num > 0
    THEN [direction |-> "rising", strength |-> Strength(slope), slope |-> slope,
          description |-> IF FracGt(Strength(slope), 5)
                          THEN "is rising rapidly" ELSE "is gradually increasing"]
    ELSE [direction |-> "falling", strength |-> Strength(slope), slope |-> slope,
          description |-> IF FracGt(Strength(slope), 5)
                          THEN "is dropping rapidly" ELSE "is gradually decreasing"]

\* ParamTrend with the length test off by one (<= 3 for < 3).
ParamTrendOffByOne(values) ==
    IF values = <<>> \/ Len(values) <= 3 THEN InsufficientData
    ELSE IF Len(Clean(values)) <= 3 THEN InsufficientData
    ELSE TrendOf(Slope(LastN(Clean(values), 20)))

ParamTrend(values) ==
    IF values = <<>> \/ Len(values) < 3 THEN InsufficientData
    ELSE IF Len(Clean(values)) < 3 THEN InsufficientData
    ELSE TrendOf(Slope(LastN(Clean(values), 20)))

_analyze_trends(self, sd) ==
    [p \in Params |-> ParamTrend(Get(sd, p, <<>>))]

(***************************************************************************)
(* _interpret_ml_outputs                                                   *)
(***************************************************************************)

\* forecast.get(param, 0)
ForecastOf(forecast, p) == Get(forecast, p, 0)

\* The concerns list: a forecast strictly above the parameter's high bound,
\* in the order temperature, vibration, speed.
Concerns(self, forecast) ==
    SelectSeq([i \in 1..Len(ParamOrder) |->
                  [parameter |-> ParamOrder[i],
                   value |-> ForecastOf(forecast, ParamOrder[i])]],
              LAMBDA c : c.value > self.thresholds[c.parameter].high)

\* f - current_state.get(param, {}).get("current", f)
ForecastChange(forecast, current_state, p) ==
    ForecastOf(forecast, p)
      - (IF p \in DOMAIN current_state THEN current_state[p].current
         ELSE ForecastOf(forecast, p))

LstmInterpretation(self, forecast, current_state) ==
    [forecast_values |-> forecast,
     changes  |-> [p \in Params |-> ForecastChange(forecast, current_state, p)],
     concerns |-> Concerns(self, forecast)]

\* rf_pred is an integer when present; rf_label defaults to "unknown".
RfRisk(rf_pred, rf_label) ==
    IF rf_pred = 2 \/ rf_label = "critical" THEN "critical"
    ELSE IF rf_pred = 1 \/ rf_label = "warning" THEN "warning"
    ELSE "normal"

RfMessage(rf_risk) ==
    IF rf_risk = "critical" THEN "Machine signature matches critical failure patterns"
    ELSE IF rf_risk = "warning" THEN "Machine signature shows warning signs"
    ELSE "Machine signature is healthy"

RfInterpretation(rf) ==
    LET rf_pred  == rf.pred
        rf_label == Get(rf, "label", "unknown")
    IN  [risk_level |-> RfRisk(rf_pred, rf_label),
         prediction |-> rf_pred,
         label      |-> rf_label,
         message    |-> RfMessage(RfRisk(rf_pred, rf_label))]

\* IsoSeverity with the score bounds included in the band above (<= for <).
IsoSeverityInclusive(iso) ==
    LET has   == "score" \in DOMAIN iso
        score == IF has THEN iso.score ELSE 0
    IN  IF iso.pred = -1
        THEN IF has /\ score # 0 /\ score <= -10 THEN "critical"
             ELSE IF has /\ score # 0 /\ score <= -5 THEN "high"
             ELSE "medium"
        ELSE "normal"

\* "iso_score and iso_score < -0.1": a score that is None or 0 is falsy.
IsoSeverity(iso) ==
    LET has   == "score" \in DOMAIN iso
        score == IF has THEN iso.score ELSE 0
    IN  IF iso.pred = -1
        THEN IF has /\ score # 0 /\ score < -10 THEN "critical"
             ELSE IF has /\ score # 0 /\ score < -5 THEN "high"
             ELSE "medium"
        ELSE "normal"

IsoMessage(iso_severity) ==
    IF iso_severity = "critical"
    THEN "Severe anomaly detected - immediate investigation required"
    ELSE IF iso_severity = "high" THEN "Significant anomaly detected - inspect soon"
    ELSE IF iso_severity = "medium" THEN "Anomaly detected - monitor closely"
    ELSE "No anomalies detected"

\* The stored score is <<>> for None.
IsoInterpretation(iso) ==
    [severity   |-> IsoSeverity(iso),
     prediction |-> iso.pred,
     score      |-> IF "score" \in DOMAIN iso THEN <<iso.score>> ELSE <<>>,
     message    |-> IsoMessage(IsoSeverity(iso))]

\* A section is interpreted when: lstm has a non-empty forecast; random_forest
\* has pred; isolation_forest has pred.
InterpretedSections(ml) ==
    {m \in {"lstm"} :
        "lstm" \in DOMAIN ml /\ "forecast" \in DOMAIN ml.lstm
        /\ DOMAIN ml.lstm.forecast # {}}
    \cup {m \in {"random_forest"} :
        "random_forest" \in DOMAIN ml /\ "pred" \in DOMAIN ml.random_forest}
    \cup {m \in {"isolation_forest"} :
        "isolation_forest" \in DOMAIN ml /\ "pred" \in DOMAIN ml.isolation_forest}

_interpret_ml_outputs(self, ml, current_state) ==
    [m \in InterpretedSections(ml) |->
        IF m = "lstm" THEN LstmInterpretation(self, ml.lstm.forecast, current_state)
        ELSE IF m = "random_forest" THEN RfInterpretation(ml.random_forest)
        ELSE IsoInterpretation(ml.isolation_forest)]

(***************************************************************************)
(* _detect_anomalies                                                       *)
(***************************************************************************)

\* SpikeOrDrop with the mean taken over the last five samples, the last one
\* included.
SpikeOrDropWholeWindow(param, values) ==
    IF Len(values) < 5 \/ Len(Clean(values)) < 5 THEN <<>>
    ELSE LET recent  == LastN(Clean(values), 5)
             sum5    == SeqSum(recent)
             current == recent[5]
         IN  IF 50 * current > 13 * sum5
             THEN <<[type |-> "spike", parameter |-> param,
                     severity |-> IF 10 * current > 3 * sum5 THEN "high" ELSE "medium"]>>
             ELSE IF 50 * current < 7 * sum5
             THEN <<[type |-> "drop", parameter |-> param, severity |-> "medium"]>>
             ELSE <<>>

\* The spike/drop test of one parameter: a sequence of zero or one anomaly.
\* avg is the mean of the four samples before the last of the last five
\* clean ones; current > avg * 1.3 is 40*current > 13*sum4, current >
\* avg * 1.5 is 8*current > 3*sum4, current < avg * 0.7 is 40*current < 7*sum4.
SpikeOrDrop(param, values) ==
    IF Len(values) < 5 \/ Len(Clean(values)) < 5 THEN <<>>
    ELSE LET recent  == LastN(Clean(values), 5)
             sum4    == SeqSum(SubSeq(recent, 1, 4))
             current == recent[5]
         IN  IF 40 * current > 13 * sum4
             THEN <<[type |-> "spike", parameter |-> param,
                     severity |-> IF 8 * current > 3 * sum4 THEN "high" ELSE "medium"]>>
             ELSE IF 40 * current < 7 * sum4
             THEN <<[type |-> "drop", parameter |-> param, severity |-> "medium"]>>
             ELSE <<>>

\* The correlated temperature/vibration check (lines 319-335).
Correlated(self, sd) ==
    LET temp_values == Get(sd, "temperature", <<>>)
        vib_values  == Get(sd, "vibration", <<>>)
        temp_clean  == Clean(LastN(temp_values, 5))
        vib_clean   == Clean(LastN(vib_values, 5))
    IN  IF Len(temp_values) >= 5 /\ Len(vib_values) >= 5
           /\ temp_clean # <<>> /\ vib_clean # <<>>
           /\ temp_clean[Len(temp_clean)] > self.thresholds.temperature.high
           /\ vib_clean[Len(vib_clean)] > self.thresholds.vibration.high
        THEN <<[type |-> "correlated", parameter |-> "temperature_vibration",
                severity |-> "critical"]>>
        ELSE <<>>

_detect_anomalies(self, sd, ml) ==
    SpikeOrDrop("temperature", Get(sd, "temperature", <<>>))
      \o SpikeOrDrop("vibration", Get(sd, "vibration", <<>>))
      \o SpikeOrDrop("speed", Get(sd, "speed", <<>>))
      \o Correlated(self, sd)

(***************************************************************************)
(* _assess_risk                                                            *)
(***************************************************************************)

\* Parameters of current_state in the order its items() are visited.
StateOrder(current_state) ==
    SelectSeq(ParamOrder, LAMBDA p : p \in DOMAIN current_state)

\* StatusPoints with the increments of critical and high exchanged.
StatusPointsSwapped(status) ==
    IF status = "critical" THEN 20
    ELSE IF status = "high" THEN 30
    ELSE IF status = "warning" THEN 10
    ELSE 0

\* Points and factor of one parameter's status (lines 345-354).
StatusPoints(status) ==
    IF status = "critical" THEN 30
    ELSE IF status = "high" THEN 20
    ELSE IF status = "warning" THEN 10
    ELSE 0

StatusFactors(current_state) ==
    LET ps == SelectSeq(StateOrder(current_state),
                        LAMBDA p : current_state[p].status # "normal")
    IN  [i \in 1..Len(ps) |->
            [kind |-> IF current_state[ps[i]].status = "critical" THEN "Critical"
                      ELSE IF current_state[ps[i]].status = "high" THEN "High"
                      ELSE "Elevated",
             parameter |-> ps[i],
             value |-> <<current_state[ps[i]].current>>]]

\* trend["direction"] == "rising" and trend["strength"] > 5
RapidlyRising(trend) == trend.direction = "rising" /\ FracGt(trend.strength, 5)

TrendFactors(trends) ==
    LET ps == SelectSeq(ParamOrder, LAMBDA p : RapidlyRising(trends[p]))
    IN  [i \in 1..Len(ps) |->
            [kind |-> "rising rapidly", parameter |-> ps[i], value |-> <<>>]]

RfPoints(ml_interpretation) ==
    IF "random_forest" \notin DOMAIN ml_interpretation THEN 0
    ELSE IF ml_interpretation.random_forest.risk_level = "critical" THEN 25
    ELSE IF ml_interpretation.random_forest.risk_level = "warning" THEN 15
    ELSE 0

IsoPoints(ml_interpretation) ==
    IF "isolation_forest" \notin DOMAIN ml_interpretation THEN 0
    ELSE IF ml_interpretation.isolation_forest.severity = "critical" THEN 20
    ELSE IF ml_interpretation.isolation_forest.severity \in {"high", "medium"} THEN 10
    ELSE 0

ModelFactors(ml_interpretation) ==
    (IF RfPoints(ml_interpretation) = 25
     THEN <<[kind |-> "ML model predicts critical failure risk", parameter |-> "", value |-> <<>>]>>
     ELSE IF RfPoints(ml_interpretation) = 15
     THEN <<[kind |-> "ML model shows warning signs", parameter |-> "", value |-> <<>>]>>
     ELSE <<>>)
    \o
    (IF IsoPoints(ml_interpretation) = 20
     THEN <<[kind |-> "Critical anomaly detected", parameter |-> "", value |-> <<>>]>>
     ELSE IF IsoPoints(ml_interpretation) = 10
     THEN <<[kind |-> "Anomaly detected", parameter |-> "", value |-> <<>>]>>
     ELSE <<>>)

\* AnomalyPoints with a medium anomaly counted as well.
AnomalyPointsMediumCounts(anomaly) ==
    IF anomaly.severity = "critical" THEN 15
    ELSE IF anomaly.severity = "high" THEN 10
    ELSE 5

AnomalyPoints(anomaly) ==
    IF anomaly.severity = "critical" THEN 15
    ELSE IF anomaly.severity = "high" THEN 10
    ELSE 0

\* risk_score before the cap: the sum of every contribution.
RawRiskScore(current_state, trends, ml_interpretation, anomalies) ==
    SeqSum([i \in 1..Len(StateOrder(current_state)) |->
               StatusPoints(current_state[StateOrder(current_state)[i]].status)])
    + 15 * Cardinality({p \in DOMAIN trends : RapidlyRising(trends[p])})
    + RfPoints(ml_interpretation)
    + IsoPoints(ml_interpretation)
    + SeqSum([i \in 1..Len(anomalies) |-> AnomalyPoints(anomalies[i])])

\* RiskLevel with every >= written as >.
RiskLevelStrict(risk_score) ==
    IF risk_score > 70 THEN "critical"
    ELSE IF risk_score > 50 THEN "high"
    ELSE IF risk_score > 30 THEN "medium"
    ELSE IF risk_score > 10 THEN "low"
    ELSE "normal"

\* The level chain on the capped score (lines 389-404).
RiskLevel(risk_score) ==
    IF risk_score >= 70 THEN "critical"
    ELSE IF risk_score >= 50 THEN "high"
    ELSE IF risk_score >= 30 THEN "medium"
    ELSE IF risk_score >= 10 THEN "low"
    ELSE "normal"

\* _assess_risk that never reports less than the analysis stored by the
\* call before did.
_assess_risk_sticky(self, current_state, trends, ml_interpretation, anomalies) ==
    LET now        == Min2(RawRiskScore(current_state, trends,
                                        ml_interpretation, anomalies), 100)
        before     == IF self.last_analysis = <<>> THEN 0
                      ELSE self.last_analysis[1].risk_assessment.score
        risk_score == IF before > now THEN before ELSE now
    IN  [level   |-> RiskLevel(risk_score),
         score   |-> risk_score,
         factors |-> StatusFactors(current_state) \o TrendFactors(trends)
                       \o ModelFactors(ml_interpretation)]

_assess_risk(self, current_state, trends, ml_interpretation, anomalies) ==
    LET risk_score == Min2(RawRiskScore(current_state, trends,
                                        ml_interpretation, anomalies), 100)
    IN  [level   |-> RiskLevel(risk_score),
         score   |-> risk_score,
         factors |-> StatusFactors(current_state) \o TrendFactors(trends)
                       \o ModelFactors(ml_interpretation)]

(***************************************************************************)
(* _generate_recommendations                                               *)
(***************************************************************************)

\* A card: priority, action, category and reason.  A reason that quotes a
\* reading is <<text, value quoted, threshold text>>; the value quoted is
\* state.get("current", 0).
EmergencyCard ==
    [priority |-> "immediate", action |-> "Emergency Shutdown Required",
     category |-> "Safety",
     reason |-> <<"Critical risk detected - machine failure imminent">>]

RoutineCard ==
    [priority |-> "low", action |-> "Routine Maintenance Schedule",
     category |-> "Preventive Maintenance",
     reason |-> <<"Machine operating normally - good time for preventive care">>]

\* Action, category and threshold text of the card of a parameter in a band.
CardText ==
    [temperature |->
        [critical |-> [action |-> "Critical Temperature - Cooling System Failure",
                       category |-> "Cooling System", threshold |-> "Critical threshold: 95"],
         high     |-> [action |-> "High Temperature - Preventive Action Required",
                       category |-> "Cooling System", threshold |-> "Warning threshold: 85"],
         warning  |-> [action |-> "Elevated Temperature - Monitor Closely",
                       category |-> "Monitoring", threshold |-> "Normal threshold: 75"]],
     vibration |->
        [critical |-> [action |-> "Critical Vibration - Mechanical Failure Risk",
                       category |-> "Mechanical System", threshold |-> "Critical threshold: 10"],
         high     |-> [action |-> "High Vibration - Mechanical Inspection Needed",
                       category |-> "Mechanical System", threshold |-> "Warning threshold: 7"],
         warning  |-> [action |-> "Elevated Vibration - Preventive Check",
                       category |-> "Monitoring", threshold |-> "Normal threshold: 5"]],
     speed |->
        [critical |-> [action |-> "Critical Speed - Runaway Condition",
                       category |-> "Control System", threshold |-> "Critical threshold: 1500"],
         high     |-> [action |-> "High Speed - Load Adjustment Required",
                       category |-> "Control System", threshold |-> "Warning threshold: 1350"],
         warning  |-> [action |-> "Elevated Speed - Verify Settings",
                       category |-> "Monitoring", threshold |-> "Normal threshold: 1200"]]]

\* BandPriority with the critical band given the priority of the high one.
BandPriorityNoImmediate(status) ==
    IF status = "critical" THEN "high"
    ELSE IF status = "high" THEN "high"
    ELSE "medium"

\* Priority of the card of a band.
BandPriority(status) ==
    IF status = "critical" THEN "immediate"
    ELSE IF status = "high" THEN "high"
    ELSE "medium"

\* The if/elif chain of one parameter: zero or one card.
ParamCards(current_state, p) ==
    IF p \in DOMAIN current_state /\ current_state[p].status # "normal"
    THEN LET st == current_state[p].status
         IN  <<[priority |-> BandPriority(st),
                action   |-> CardText[p][st].action,
                category |-> CardText[p][st].category,
                reason   |-> <<p, current_state[p].current, CardText[p][st].threshold>>]>>
    ELSE <<>>

\* f"Rapidly Rising {param.capitalize()} - Urgent Attention"
TrendAction ==
    [temperature |-> "Rapidly Rising Temperature - Urgent Attention",
     vibration   |-> "Rapidly Rising Vibration - Urgent Attention",
     speed       |-> "Rapidly Rising Speed - Urgent Attention"]

\* trend["direction"] == "rising" and trend["strength"] > 7
TrendCardDue(trend) == trend.direction = "rising" /\ FracGt(trend.strength, 7)

TrendCards(trends) ==
    LET ps == SelectSeq(ParamOrder, LAMBDA p : TrendCardDue(trends[p]))
    IN  [i \in 1..Len(ps) |->
            [priority |-> "high",
             action   |-> TrendAction[ps[i]],
             category |-> "Trend Analysis",
             reason   |-> <<ps[i], trends[ps[i]].strength>>]]

\* _generate_recommendations that gives the emergency card when a reading is
\* critical, and not by the risk level.
_generate_recommendations_by_reading(self, risk_assessment, current_state, trends) ==
    (IF \E p \in DOMAIN current_state : current_state[p].status = "critical"
     THEN <<EmergencyCard>> ELSE <<>>)
      \o ParamCards(current_state, "temperature")
      \o ParamCards(current_state, "vibration")
      \o ParamCards(current_state, "speed")
      \o TrendCards(trends)
      \o (IF risk_assessment.level \in {"normal", "low"} THEN <<RoutineCard>> ELSE <<>>)

\* _generate_recommendations that reuses the cards of the analysis stored on
\* the instance when there is one.
_generate_recommendations_cached(self, risk_assessment, current_state, trends) ==
    IF self.last_analysis # <<>> THEN self.last_analysis[1].recommendations
    ELSE (IF risk_assessment.level = "critical" THEN <<EmergencyCard>> ELSE <<>>)
           \o ParamCards(current_state, "temperature")
           \o ParamCards(current_state, "vibration")
           \o ParamCards(current_state, "speed")
           \o TrendCards(trends)
           \o (IF risk_assessment.level \in {"normal", "low"} THEN <<RoutineCard>> ELSE <<>>)

_generate_recommendations(self, risk_assessment, current_state, trends) ==
    (IF risk_assessment.level = "critical" THEN <<EmergencyCard>> ELSE <<>>)
      \o ParamCards(current_state, "temperature")
      \o ParamCards(current_state, "vibration")
      \o ParamCards(current_state, "speed")
      \o TrendCards(trends)
      \o (IF risk_assessment.level \in {"normal", "low"} THEN <<RoutineCard>> ELSE <<>>)

(***************************************************************************)
(* _analyze_correlations                                                   *)
(***************************************************************************)

\* The status of the correlation analysis: it needs three clean samples of
\* every parameter among the last twenty.  The coefficients themselves are
\* not represented.
_analyze_correlations(self, sd) ==
    LET n(p) == Len(Clean(LastN(Get(sd, p, <<>>), 20)))
    IN  IF \E p \in Params : n(p) < 3
        THEN [status |-> "insufficient_data"]
        ELSE [status |-> "analyzed"]

(***************************************************************************)
(* _understand_question_intent                                             *)
(*                                                                         *)
(* A question is the sequence of its characters.                           *)
(***************************************************************************)

\* str.lower() on the letters a question is written in.
UpperToLower ==
    [A |-> "a", B |-> "b", C |-> "c", D |-> "d", E |-> "e", F |-> "f", G |-> "g",
     H |-> "h", I |-> "i", J |-> "j", K |-> "k", L |-> "l", M |-> "m", N |-> "n",
     O |-> "o", P |-> "p", Q |-> "q", R |-> "r", S |-> "s", T |-> "t", U |-> "u",
     V |-> "v", W |-> "w", X |-> "x", Y |-> "y", Z |-> "z"]

\* The keyword lists of the if/elif chain, keyed by the intent returned.
Keywords ==
    [temperature |-> <<
        <<"t", "e", "m", "p", "e", "r", "a", "t", "u", "r", "e">>,
        <<"t", "e", "m", "p">>,
        <<"h", "o", "t">>,
        <<"h", "e", "a", "t">>,
        <<"o", "v", "e", "r", "h", "e", "a", "t">>,
        <<"c", "o", "o", "l", "i", "n", "g">>,
        <<"t", "h", "e", "r", "m", "a", "l">>,
        <<"c", "o", "l", "d">>,
        <<"w", "a", "r", "m">> >>,
     vibration |-> <<
        <<"v", "i", "b", "r", "a", "t", "i", "o", "n">>,
        <<"v", "i", "b", "r", "a", "t", "e">>,
        <<"s", "h", "a", "k", "e">>,
        <<"s", "h", "a", "k", "i", "n", "g">>,
        <<"m", "e", "c", "h", "a", "n", "i", "c", "a", "l">>,
        <<"b", "e", "a", "r", "i", "n", "g">>,
        <<"a", "l", "i", "g", "n", "m", "e", "n", "t">>,
        <<"b", "a", "l", "a", "n", "c", "e">> >>,
     speed |-> <<
        <<"s", "p", "e", "e", "d">>,
        <<"r", "p", "m">>,
        <<"f", "a", "s", "t">>,
        <<"s", "l", "o", "w">>,
        <<"m", "o", "t", "o", "r">>,
        <<"r", "o", "t", "a", "t", "i", "o", "n">>,
        <<"v", "e", "l", "o", "c", "i", "t", "y">> >>,
     anomaly |-> <<
        <<"a", "n", "o", "m", "a", "l", "y">>,
        <<"a", "b", "n", "o", "r", "m", "a", "l">>,
        <<"u", "n", "u", "s", "u", "a", "l">>,
        <<"s", "t", "r", "a", "n", "g", "e">>,
        <<"w", "e", "i", "r", "d">>,
        <<"w", "r", "o", "n", "g">>,
        <<"i", "s", "s", "u", "e">>,
        <<"p", "r", "o", "b", "l", "e", "m">>,
        <<"e", "r", "r", "o", "r">> >>,
     forecast |-> <<
        <<"f", "o", "r", "e", "c", "a", "s", "t">>,
        <<"p", "r", "e", "d", "i", "c", "t">>,
        <<"f", "u", "t", "u", "r", "e">>,
        <<"n", "e", "x", "t">>,
        <<"w", "i", "l", "l">>,
        <<"g", "o", "i", "n", "g", " ", "t", "o">>,
        <<"e", "x", "p", "e", "c", "t">>,
        <<"a", "n", "t", "i", "c", "i", "p", "a", "t", "e">> >>,
     risk |-> <<
        <<"r", "i", "s", "k">>,
        <<"f", "a", "i", "l", "u", "r", "e">>,
        <<"f", "a", "i", "l">>,
        <<"b", "r", "e", "a", "k", "d", "o", "w", "n">>,
        <<"d", "a", "n", "g", "e", "r">>,
        <<"s", "a", "f", "e">>,
        <<"c", "r", "i", "t", "i", "c", "a", "l">>,
        <<"e", "m", "e", "r", "g", "e", "n", "c", "y">> >>,
     recommendation |-> <<
        <<"r", "e", "c", "o", "m", "m", "e", "n", "d">>,
        <<"s", "u", "g", "g", "e", "s", "t">>,
        <<"s", "h", "o", "u", "l", "d">>,
        <<"w", "h", "a", "t", " ", "t", "o", " ", "d", "o">>,
        <<"a", "c", "t", "i", "o", "n">>,
        <<"f", "i", "x">>,
        <<"s", "o", "l", "v", "e">>,
        <<"h", "e", "l", "p">>,
        <<"r", "e", "p", "a", "i", "r">> >>,
     health |-> <<
        <<"h", "e", "a", "l", "t", "h">>,
        <<"s", "t", "a", "t", "u", "s">>,
        <<"c", "o", "n", "d", "i", "t", "i", "o", "n">>,
        <<"h", "o", "w", " ", "i", "s">>,
        <<"o", "v", "e", "r", "a", "l", "l">>,
        <<"s", "u", "m", "m", "a", "r", "y">>,
        <<"r", "e", "p", "o", "r", "t">>,
        <<"s", "t", "a", "t", "e">> >>,
     trend |-> <<
        <<"t", "r", "e", "n", "d">>,
        <<"t", "r", "e", "n", "d", "i", "n", "g">>,
        <<"p", "a", "t", "t", "e", "r", "n">>,
        <<"c", "h", "a", "n", "g", "i", "n", "g">>,
        <<"i", "n", "c", "r", "e", "a", "s", "i", "n", "g">>,
        <<"d", "e", "c", "r", "e", "a", "s", "i", "n", "g">>,
        <<"r", "i", "s", "i", "n", "g">>,
        <<"f", "a", "l", "l", "i", "n", "g">> >>,
     why |-> <<
        <<"w", "h", "y">>,
        <<"e", "x", "p", "l", "a", "i", "n">>,
        <<"r", "e", "a", "s", "o", "n">>,
        <<"c", "a", "u", "s", "e">>,
        <<"b", "e", "c", "a", "u", "s", "e">>,
        <<"h", "o", "w", " ", "c", "o", "m", "e">> >>,
     comparison |-> <<
        <<"c", "o", "m", "p", "a", "r", "e">>,
        <<"d", "i", "f", "f", "e", "r", "e", "n", "c", "e">>,
        <<"v", "s">>,
        <<"v", "e", "r", "s", "u", "s">>,
        <<"b", "e", "t", "w", "e", "e", "n">>,
        <<"w", "h", "i", "c", "h">> >>,
     correlation |-> <<
        <<"c", "o", "r", "r", "e", "l", "a", "t", "i", "o", "n">>,
        <<"r", "e", "l", "a", "t", "e", "d">>,
        <<"c", "o", "n", "n", "e", "c", "t", "i", "o", "n">>,
        <<"r", "e", "l", "a", "t", "i", "o", "n", "s", "h", "i", "p">>,
        <<"l", "i", "n", "k", "e", "d">> >>]

\* "How is the machine?" (test_reasoning_engine.py, test_intelligent_chatbot.py TEST 1)
Q_HowIsTheMachine ==
    <<"H", "o", "w", " ", "i", "s", " ", "t", "h", "e", " ", "m", "a", "c",
      "h", "i", "n", "e", "?">>

\* "What's the temperature?" (test_reasoning_engine.py TEST 2)
Q_WhatsTheTemperature ==
    <<"W", "h", "a", "t", "'", "s", " ", "t", "h", "e", " ", "t", "e", "m",
      "p", "e", "r", "a", "t", "u", "r", "e", "?">>

\* "What's the risk?" (test_reasoning_engine.py TEST 3)
Q_WhatsTheRisk ==
    <<"W", "h", "a", "t", "'", "s", " ", "t", "h", "e", " ", "r", "i", "s",
      "k", "?">>

\* "Any anomalies?" (test_reasoning_engine.py TEST 4)
Q_AnyAnomalies ==
    <<"A", "n", "y", " ", "a", "n", "o", "m", "a", "l", "i", "e", "s", "?">>

\* "Show forecast" (test_reasoning_engine.py TEST 4)
Q_ShowForecast ==
    <<"S", "h", "o", "w", " ", "f", "o", "r", "e", "c", "a", "s", "t">>

\* "Recommendations?" (test_reasoning_engine.py TEST 4)
Q_Recommendations ==
    <<"R", "e", "c", "o", "m", "m", "e", "n", "d", "a", "t", "i", "o", "n",
      "s", "?">>

\* "What are the trends?" (test_reasoning_engine.py TEST 4)
Q_WhatAreTheTrends ==
    <<"W", "h", "a", "t", " ", "a", "r", "e", " ", "t", "h", "e", " ", "t",
      "r", "e", "n", "d", "s", "?">>

\* "Why is the temperature rising?" (test_intelligent_chatbot.py TEST 2)
Q_WhyIsTheTemperatureRising ==
    <<"W", "h", "y", " ", "i", "s", " ", "t", "h", "e", " ", "t", "e", "m",
      "p", "e", "r", "a", "t", "u", "r", "e", " ", "r", "i", "s", "i", "n",
      "g", "?">>

\* "What should I do about the vibration?" (test_intelligent_chatbot.py TEST 3)
Q_WhatShouldIDoAboutTheVibration ==
    <<"W", "h", "a", "t", " ", "s", "h", "o", "u", "l", "d", " ", "I", " ",
      "d", "o", " ", "a", "b", "o", "u", "t", " ", "t", "h", "e", " ", "v",
      "i", "b", "r", "a", "t", "i", "o", "n", "?">>

\* "What will happen next?" (test_intelligent_chatbot.py TEST 4)
Q_WhatWillHappenNext ==
    <<"W", "h", "a", "t", " ", "w", "i", "l", "l", " ", "h", "a", "p", "p",
      "e", "n", " ", "n", "e", "x", "t", "?">>

\* "Are temperature and vibration related?" (test_intelligent_chatbot.py TEST 5)
Q_AreTemperatureAndVibrationRelated ==
    <<"A", "r", "e", " ", "t", "e", "m", "p", "e", "r", "a", "t", "u", "r",
      "e", " ", "a", "n", "d", " ", "v", "i", "b", "r", "a", "t", "i", "o",
      "n", " ", "r", "e", "l", "a", "t", "e", "d", "?">>

\* "why is vibration high?" (a question with a keyword of two intents)
Q_WhyIsVibrationHigh ==
    <<"w", "h", "y", " ", "i", "s", " ", "v", "i", "b", "r", "a", "t", "i",
      "o", "n", " ", "h", "i", "g", "h", "?">>

\* question.lower()
Lower(text) ==
    [i \in 1..Len(text) |->
        IF text[i] \in DOMAIN UpperToLower THEN UpperToLower[text[i]] ELSE text[i]]

\* word in question_lower: the word starts at some position of the text.
Occurs(word, text) ==
    \E i \in 1..(Len(text) - Len(word) + 1) :
        /\ text[i] = word[1]
        /\ SubSeq(text, i, i + Len(word) - 1) = word

\* any(word in question_lower for word in [...])
AnyOccurs(words, text) == \E k \in 1..Len(words) : Occurs(words[k], text)

\* IntentOrder with the why test moved to the front of the chain.
IntentOrderWhyFirst ==
    <<"why", "temperature", "vibration", "speed", "anomaly", "forecast", "risk",
      "recommendation", "health", "trend", "comparison", "correlation">>

\* The order of the tests of the if/elif chain.
IntentOrder ==
    <<"temperature", "vibration", "speed", "anomaly", "forecast", "risk",
      "recommendation", "health", "trend", "why", "comparison", "correlation">>

\* The chain from one test on: the first intent with a keyword in the text.
RECURSIVE FirstIntent(_, _)
FirstIntent(order, question_lower) ==
    IF order = <<>> THEN "comprehensive"
    ELSE IF AnyOccurs(Keywords[order[1]], question_lower) THEN order[1]
    ELSE FirstIntent(Tail(order), question_lower)

_understand_question_intent(question_lower) ==
    IF question_lower = <<>> THEN "comprehensive"
    ELSE FirstIntent(IntentOrder, question_lower)

(***************************************************************************)
(* _build_response and the handlers it routes to                           *)
(*                                                                         *)
(* A response is kept as the record of what its text states: the heading   *)
(* of the handler that wrote it and, line by line, the values and verdicts  *)
(* it prints.  A handler that raises gives [exception |-> its type].        *)
(***************************************************************************)

\* The first line each handler writes.
Heading ==
    [temperature    |-> "Temperature Analysis",
     vibration      |-> "Vibration Analysis",
     speed          |-> "Speed Analysis",
     anomaly        |-> "Anomaly Detection",
     forecast       |-> "Forecast (Next Cycle)",
     risk           |-> "Risk Assessment",
     recommendation |-> "DETAILED RECOMMENDATIONS & SOLUTIONS",
     health         |-> "Machine Health Summary",
     trend          |-> "Trend Analysis",
     why            |-> "Let me explain what's happening",
     comparison     |-> "Parameter Comparison",
     correlation    |-> "Parameter Correlation Analysis",
     comprehensive  |-> "Complete Machine Health Analysis"]

Raised(response) == "exception" \in DOMAIN response

\* s[:k] of Python
FirstN(s, k) == SubSeq(s, 1, Min2(k, Len(s)))

\* [r for r in recommendations if r["priority"] == priority]
CardsOf(recommendations, priority) ==
    SelectSeq(recommendations, LAMBDA r : r.priority = priority)

\* ml_interpretation.get("lstm", {}).get("forecast_values", {})
ForecastValues(ml_interpretation) ==
    IF "lstm" \in DOMAIN ml_interpretation
    THEN ml_interpretation.lstm.forecast_values ELSE <<>>

\* The verdict a parameter handler closes with, by the status it read.
VerdictText ==
    [temperature |->
        [critical |-> "CRITICAL: Temperature is dangerously high! Immediate shutdown recommended.",
         high     |-> "WARNING: Temperature is elevated.",
         warning  |-> "Temperature is approaching high threshold.",
         other    |-> "Temperature is within normal range."],
     vibration |->
        [critical |-> "CRITICAL: Vibration is extremely high!",
         high     |-> "WARNING: Vibration is elevated.",
         warning  |-> "Vibration is approaching high threshold.",
         other    |-> "Vibration is within normal range."],
     speed |->
        [critical |-> "CRITICAL: Speed is dangerously high!",
         high     |-> "WARNING: Speed is elevated.",
         warning  |-> "Speed is approaching high threshold.",
         other    |-> "Speed is within normal range."]]

\* The body the three parameter handlers share: current and status come
\* from current_state.get(param, {}) with defaults 0 and "unknown", the
\* forecast defaults to current.
ParamAnswer(p, current_state, trends, ml_interpretation) ==
    LET current == IF p \in DOMAIN current_state THEN current_state[p].current ELSE 0
        status  == IF p \in DOMAIN current_state THEN current_state[p].status
                   ELSE "unknown"
    IN  [heading  |-> Heading[p],
         current  |-> current,
         status   |-> status,
         trend    |-> IF p \in DOMAIN trends THEN trends[p].description ELSE "stable",
         forecast |-> Get(ForecastValues(ml_interpretation), p, current),
         verdict  |-> IF status \in {"critical", "high", "warning"}
                      THEN VerdictText[p][status] ELSE VerdictText[p].other]

_answer_temperature_question(current_state, trends, ml_interpretation, risk_assessment) ==
    ParamAnswer("temperature", current_state, trends, ml_interpretation)

_answer_vibration_question(current_state, trends, ml_interpretation, risk_assessment) ==
    ParamAnswer("vibration", current_state, trends, ml_interpretation)

_answer_speed_question(current_state, trends, ml_interpretation, risk_assessment) ==
    ParamAnswer("speed", current_state, trends, ml_interpretation)

\* f"{iso.get('score', 0):.3f}" formats the stored score, and the stored
\* score is None when the model's output had none: TypeError.
_answer_anomaly_question(ml_interpretation, anomalies, risk_assessment) ==
    IF "isolation_forest" \in DOMAIN ml_interpretation
       /\ ml_interpretation.isolation_forest.severity \in {"critical", "high", "medium"}
    THEN IF ml_interpretation.isolation_forest.score = <<>>
         THEN [exception |-> "TypeError"]
         ELSE [heading   |-> Heading.anomaly,
               finding   |-> ml_interpretation.isolation_forest.message,
               score     |-> ml_interpretation.isolation_forest.score,
               anomalies |-> anomalies]
    ELSE [heading |-> Heading.anomaly, finding |-> "No anomalies detected."]

_answer_forecast_question(ml_interpretation, current_state, risk_assessment) ==
    LET forecast == ForecastValues(ml_interpretation)
        concerns == IF "lstm" \in DOMAIN ml_interpretation
                    THEN ml_interpretation.lstm.concerns ELSE <<>>
    IN  IF DOMAIN forecast # {}
        THEN [heading  |-> Heading.forecast,
              values   |-> [p \in Params |-> Get(forecast, p, 0)],
              concerns |-> concerns,
              outlook  |-> IF concerns # <<>>
                           THEN "Take preventive action now to avoid these conditions."
                           ELSE "Forecast looks normal."]
        ELSE [heading |-> Heading.forecast,
              outlook |-> "Unable to generate forecast (insufficient data)."]

\* The classifier's and the anomaly model's message lines: one when the
\* section was interpreted, none otherwise.
RfLine(ml_interpretation) ==
    IF "random_forest" \in DOMAIN ml_interpretation
    THEN <<ml_interpretation.random_forest.message>> ELSE <<>>

IsoLine(ml_interpretation) ==
    IF "isolation_forest" \in DOMAIN ml_interpretation
    THEN <<ml_interpretation.isolation_forest.message>> ELSE <<>>

_answer_risk_question(risk_assessment, ml_interpretation, recommendations) ==
    [heading       |-> Heading.risk,
     level         |-> risk_assessment.level,
     score         |-> risk_assessment.score,
     factors       |-> risk_assessment.factors,
     ml_prediction |-> RfLine(ml_interpretation),
     actions       |-> FirstN(SelectSeq(recommendations,
                                        LAMBDA r : r.priority \in {"immediate", "high"}), 3)]

\* The closing note of the recommendation answer.
RecommendationNote(immediate, high, medium) ==
    IF immediate # <<>> \/ high # <<>>
    THEN "IMPORTANT: Follow these steps immediately to prevent machine failure and ensure safety!"
    ELSE IF medium # <<>>
    THEN "NOTE: Schedule these actions soon to maintain optimal machine performance."
    ELSE "NOTE: Your machine is healthy. Follow routine maintenance schedule."

_answer_recommendation_question(recommendations, risk_assessment) ==
    LET immediate == CardsOf(recommendations, "immediate")
        high      == CardsOf(recommendations, "high")
        medium    == CardsOf(recommendations, "medium")
        low       == CardsOf(recommendations, "low")
    IN  [heading   |-> Heading.recommendation,
         immediate |-> immediate,
         high      |-> high,
         medium    |-> FirstN(medium, 2),
         routine   |-> IF immediate = <<>> /\ high = <<>> THEN FirstN(low, 1) ELSE <<>>,
         note      |-> RecommendationNote(immediate, high, medium)]

\* The reading lines of a current_state: parameter, value and status.
Readings(current_state) ==
    [i \in 1..Len(StateOrder(current_state)) |->
        [parameter |-> StateOrder(current_state)[i],
         current   |-> current_state[StateOrder(current_state)[i]].current,
         status    |-> current_state[StateOrder(current_state)[i]].status]]

\* The trend lines: parameter and description, in the order of trends.items().
TrendLines(trends) ==
    LET ps == SelectSeq(ParamOrder, LAMBDA p : p \in DOMAIN trends)
    IN  [i \in 1..Len(ps) |-> [parameter |-> ps[i], trend |-> trends[ps[i]].description]]

_answer_health_question(current_state, trends, risk_assessment, ml_interpretation) ==
    [heading        |-> Heading.health,
     level          |-> risk_assessment.level,
     score          |-> risk_assessment.score,
     readings       |-> Readings(current_state),
     trends         |-> TrendLines(trends),
     ml_prediction  |-> RfLine(ml_interpretation),
     anomaly_status |-> IsoLine(ml_interpretation)]

_answer_trend_question(trends, current_state, ml_interpretation) ==
    LET ps == SelectSeq(ParamOrder, LAMBDA p : p \in DOMAIN trends)
    IN  [heading |-> Heading.trend,
         trends  |->
            [i \in 1..Len(ps) |->
                [parameter |-> ps[i],
                 current   |-> IF ps[i] \in DOMAIN current_state
                               THEN current_state[ps[i]].current ELSE 0,
                 trend     |-> trends[ps[i]].description,
                 strength  |-> trends[ps[i]].strength,
                 note      |-> IF trends[ps[i]].direction = "rising"
                                  /\ FracGt(trends[ps[i]].strength, 5)
                               THEN "Rapidly increasing - monitor closely"
                               ELSE IF trends[ps[i]].direction = "falling"
                                       /\ FracGt(trends[ps[i]].strength, 5)
                               THEN "Rapidly decreasing - investigate cause"
                               ELSE "Trend is manageable"]]]

_answer_why_question(current_state, trends, ml_interpretation, anomalies, risk_assessment) ==
    LET issues == SelectSeq(Readings(current_state),
                            LAMBDA r : r.status \in {"critical", "high", "warning"})
    IN  IF issues = <<>>
        THEN [heading  |-> Heading.why,
              finding  |-> "Good news! Your machine is operating normally.",
              readings |-> Readings(current_state)]
        ELSE [heading     |-> Heading.why,
              finding     |-> "Here's what I found:",
              issues      |-> issues,
              ml_analysis |-> IF "random_forest" \in DOMAIN ml_interpretation
                                 /\ ml_interpretation.random_forest.risk_level
                                      \in {"critical", "warning"}
                              THEN RfLine(ml_interpretation) ELSE <<>>,
              anomalies   |-> FirstN(anomalies, 2)]

\* sorted(items, key=current, reverse=True): descending, equal keys in
\* their original order.
RECURSIVE SortByCurrentDesc(_)
SortByCurrentDesc(readings) ==
    IF readings = <<>> THEN <<>>
    ELSE LET top  == SeqMax([i \in 1..Len(readings) |-> readings[i].current])
             k    == CHOOSE i \in 1..Len(readings) :
                        /\ readings[i].current = top
                        /\ \A j \in 1..(i - 1) : readings[j].current # top
             rest == [i \in 1..(Len(readings) - 1) |->
                         IF i < k THEN readings[i] ELSE readings[i + 1]]
         IN  <<readings[k]>> \o SortByCurrentDesc(rest)

_answer_comparison_question(current_state, trends, ml_interpretation) ==
    LET critical_params == SelectSeq(StateOrder(current_state),
                                     LAMBDA p : current_state[p].status = "critical")
        high_params     == SelectSeq(StateOrder(current_state),
                                     LAMBDA p : current_state[p].status = "high")
    IN  [heading  |-> Heading.comparison,
         readings |-> SortByCurrentDesc(Readings(current_state)),
         trends   |-> TrendLines(trends),
         verdict  |-> IF critical_params # <<>> THEN "Most Critical"
                      ELSE IF high_params # <<>> THEN "Most Concerning"
                      ELSE "All parameters are within acceptable ranges.",
         named    |-> IF critical_params # <<>> THEN critical_params ELSE high_params]

_answer_correlation_question(correlations, current_state) ==
    IF correlations.status # "analyzed"
    THEN [heading |-> Heading.correlation,
          finding |-> "Unable to analyze correlations - insufficient data."]
    ELSE [heading |-> Heading.correlation,
          finding |-> "I've analyzed how your machine parameters relate to each other:"]

\* The line the comprehensive response opens with, by risk level.
ComprehensiveOpening(level) ==
    IF level = "critical"
    THEN "URGENT: I've detected critical issues requiring immediate action!"
    ELSE IF level = "high"
    THEN "WARNING: There are concerning patterns that need your attention."
    ELSE IF level = "medium"
    THEN "NOTICE: I've identified some areas worth monitoring."
    ELSE "GOOD NEWS: Your machine is operating within normal parameters."

\* The final summary of the comprehensive response, by the groups of cards.
ComprehensiveClosing(immediate, high, medium) ==
    IF immediate # <<>> \/ high # <<>>
    THEN "CRITICAL: Take action IMMEDIATELY to prevent machine failure!"
    ELSE IF medium # <<>>
    THEN "ATTENTION: Schedule maintenance soon to prevent issues."
    ELSE "EXCELLENT: Machine is healthy and operating normally."

\* The context line under a reading.
ReadingContext(status) ==
    IF status = "critical" THEN "CRITICAL - Immediate action required!"
    ELSE IF status = "high" THEN "HIGH - Needs urgent attention"
    ELSE IF status = "warning" THEN "WARNING - Monitor closely"
    ELSE "NORMAL - Operating within safe range"

\* The note under a trend of the comprehensive response.
TrendNote(trend) ==
    IF trend.direction = "rising" /\ FracGt(trend.strength, 7)
    THEN "ALERT: Rapidly increasing - urgent attention needed!"
    ELSE IF trend.direction = "rising" /\ FracGt(trend.strength, 5)
    THEN "WARNING: Rising rapidly - monitor closely"
    ELSE IF trend.direction = "falling" /\ FracGt(trend.strength, 5)
    THEN "WARNING: Dropping rapidly - investigate cause"
    ELSE "Trend is stable and manageable"

\* The forecast section: written when there are forecast values; a change
\* is printed when it is not zero.
ForecastSection(ml_interpretation) ==
    IF DOMAIN ForecastValues(ml_interpretation) = {} THEN <<>>
    ELSE <<[values   |-> [p \in Params |-> Get(ForecastValues(ml_interpretation), p, 0)],
            changes  |-> [p \in Params |->
                             IF ml_interpretation.lstm.changes[p] # 0
                             THEN <<ml_interpretation.lstm.changes[p]>> ELSE <<>>],
            concerns |-> ml_interpretation.lstm.concerns]>>

_build_comprehensive_response(self, current_state, trends, ml_interpretation, anomalies, risk_assessment, recommendations) ==
    LET ps        == StateOrder(current_state)
        ts        == SelectSeq(ParamOrder, LAMBDA p : p \in DOMAIN trends)
        rf        == "random_forest" \in DOMAIN ml_interpretation
        iso       == "isolation_forest" \in DOMAIN ml_interpretation
        immediate == CardsOf(recommendations, "immediate")
        high      == CardsOf(recommendations, "high")
        medium    == CardsOf(recommendations, "medium")
        low       == CardsOf(recommendations, "low")
    IN  [heading  |-> Heading.comprehensive,
         opening  |-> ComprehensiveOpening(risk_assessment.level),
         level    |-> risk_assessment.level,
         score    |-> risk_assessment.score,
         factors  |-> FirstN(risk_assessment.factors, 5),
         readings |->
            [i \in 1..Len(ps) |->
                [parameter  |-> ps[i],
                 state      |-> current_state[ps[i]],
                 thresholds |-> self.thresholds[ps[i]],
                 context    |-> ReadingContext(current_state[ps[i]].status)]],
         trends   |->
            [i \in 1..Len(ts) |->
                [parameter |-> ts[i],
                 trend     |-> trends[ts[i]].description,
                 strength  |-> trends[ts[i]].strength,
                 slope     |-> Get(trends[ts[i]], "slope", [num |-> 0, den |-> 1]),
                 note      |-> TrendNote(trends[ts[i]])]],
         forecast |-> ForecastSection(ml_interpretation),
         random_forest |->
            [prediction |-> IF rf THEN ml_interpretation.random_forest.risk_level
                            ELSE "Unknown",
             message    |-> IF rf THEN ml_interpretation.random_forest.message
                            ELSE "Unknown",
             label      |-> IF rf THEN <<ml_interpretation.random_forest.label>> ELSE <<>>],
         isolation_forest |->
            [status  |-> IF iso THEN ml_interpretation.isolation_forest.severity
                         ELSE "Unknown",
             message |-> IF iso THEN ml_interpretation.isolation_forest.message
                         ELSE "Unknown",
             score   |-> IF iso THEN ml_interpretation.isolation_forest.score ELSE <<>>],
         anomalies |-> FirstN(anomalies, 5),
         immediate |-> immediate,
         high      |-> high,
         medium    |-> FirstN(medium, 3),
         routine   |-> IF immediate = <<>> /\ high = <<>> THEN FirstN(low, 1) ELSE <<>>,
         closing   |-> ComprehensiveClosing(immediate, high, medium)]

\* The routing of _build_response on the intent of the lower-cased question.
_build_response(self, q, current_state, trends, ml_interpretation, anomalies, risk_assessment, recommendations, correlations) ==
    LET question_intent == _understand_question_intent(Lower(q))
    IN  CASE question_intent = "temperature" ->
               _answer_temperature_question(current_state, trends,
                                            ml_interpretation, risk_assessment)
          [] question_intent = "vibration" ->
               _answer_vibration_question(current_state, trends,
                                          ml_interpretation, risk_assessment)
          [] question_intent = "speed" ->
               _answer_speed_question(current_state, trends,
                                      ml_interpretation, risk_assessment)
          [] question_intent = "anomaly" ->
               _answer_anomaly_question(ml_interpretation, anomalies, risk_assessment)
          [] question_intent = "forecast" ->
               _answer_forecast_question(ml_interpretation, current_state, risk_assessment)
          [] question_intent = "risk" ->
               _answer_risk_question(risk_assessment, ml_interpretation, recommendations)
          [] question_intent = "recommendation" ->
               _answer_recommendation_question(recommendations, risk_assessment)
          [] question_intent = "health" ->
               _answer_health_question(current_state, trends, risk_assessment,
                                       ml_interpretation)
          [] question_intent = "trend" ->
               _answer_trend_question(trends, current_state, ml_interpretation)
          [] question_intent = "why" ->
               _answer_why_question(current_state, trends, ml_interpretation,
                                    anomalies, risk_assessment)
          [] question_intent = "comparison" ->
               _answer_comparison_question(current_state, trends, ml_interpretation)
          [] question_intent = "correlation" ->
               _answer_correlation_question(correlations, current_state)
          [] OTHER ->
               _build_comprehensive_response(self, current_state, trends,
                                             ml_interpretation, anomalies,
                                             risk_assessment, recommendations)

(***************************************************************************)
(* analyze                                                                 *)
(***************************************************************************)

\* The entry appended to conversation_history when the question is not
\* empty: {k: v[-1] if v else 0 for k, v in sensor_data.items()}.
HistoryEntry(sd, q) ==
    [question |-> q,
     sensor_snapshot |-> [k \in DOMAIN sd |->
                             IF sd[k] # <<>> THEN sd[k][Len(sd[k])] ELSE 0]]

\* The sub-results of one call, in the order analyze computes them: what
\* it stores in last_analysis.
Analysis(self, sd, ml) ==
    LET current_state     == _extract_current_state(self, sd)
        trends            == _analyze_trends(self, sd)
        ml_interpretation == _interpret_ml_outputs(self, ml, current_state)
        anomalies         == _detect_anomalies(self, sd, ml)
        risk_assessment   == _assess_risk(self, current_state, trends,
                                          ml_interpretation, anomalies)
        recommendations   == _generate_recommendations(self, risk_assessment,
                                                       current_state, trends)
        correlations      == _analyze_correlations(self, sd)
    IN  [current_state     |-> current_state,
         trends            |-> trends,
         ml_interpretation |-> ml_interpretation,
         anomalies         |-> anomalies,
         risk_assessment   |-> risk_assessment,
         recommendations   |-> recommendations,
         correlations      |-> correlations]

\* The response built from the sub-results of a call.
ResponseOf(self, q, a) ==
    _build_response(self, q, a.current_state, a.trends, a.ml_interpretation,
                    a.anomalies, a.risk_assessment, a.recommendations, a.correlations)

\* The dictionary analyze returns: the response and the sub-results.
Returns(response, a) ==
    [response          |-> response,
     current_state     |-> a.current_state,
     trends            |-> a.trends,
     ml_interpretation |-> a.ml_interpretation,
     anomalies         |-> a.anomalies,
     risk_assessment   |-> a.risk_assessment,
     recommendations   |-> a.recommendations,
     correlations      |-> a.correlations]

\* analyze(self, sensor_data, ml_outputs, question): the instance after the
\* call, whether the call raised, and the value returned if it did not.  An
\* exception of _build_response leaves analyze after the history entry was
\* appended and before last_analysis is assigned.
analyze(self, sd, ml, q) ==
    LET history  == IF q # <<>> THEN Append(self.conversation_history, HistoryEntry(sd, q))
                    ELSE self.conversation_history
        self1    == [self EXCEPT !.conversation_history = history]
        a        == Analysis(self1, sd, ml)
        response == ResponseOf(self1, q, a)
    IN  IF Raised(response)
        THEN [self |-> self1, raised |-> TRUE, ret |-> response]
        ELSE [self   |-> [self1 EXCEPT !.last_analysis = <<a>>],
              raised |-> FALSE,
              ret    |-> Returns(response, a)]

(***************************************************************************)
(* Inputs                                                                  *)
(***************************************************************************)

\* Bounds of the model.
MaxLen == 3

MaxHistory == 2

MaxFlat == 5

MaxWords == 2

MaxThreads == 2

MaxBefore == 5

\* The windows and model outputs of test_reasoning_engine.py, TEST 1-3.
TestWindows ==
    [temperature |->
        <<  <<650, 660, 670, 650, 660, 680, 670, 660, 650, 670, 680, 660, 670, 650, 660>>,
            <<700, 720, 740, 760, 780, 800, 820, 840, 850, 860, 870, 880, 890, 900, 910>>,
            <<850, 870, 890, 910, 930, 950, 970, 980, 990, 1000, 1010, 1020, 1030, 1040, 1050>> >>,
     vibration |->
        <<  <<32, 35, 31, 34, 33, 32, 35, 34, 33, 32, 31, 34, 33, 32, 35>>,
            <<32, 35, 38, 41, 45, 48, 52, 55, 58, 60, 62, 65, 67, 69, 71>>,
            <<70, 75, 80, 85, 90, 95, 100, 105, 110, 115, 120, 125, 130, 135, 140>> >>,
     speed |->
        <<  <<11000, 11050, 10980, 11020, 11000, 11030, 11010, 10990, 11000, 11020,
              11010, 11000, 11030, 11020, 11000>>,
            <<11000, 11100, 11200, 11300, 11400, 11500, 11600, 11700, 11800, 11900,
              12000, 12100, 12200, 12300, 12400>>,
            <<13000, 13200, 13400, 13600, 13800, 14000, 14200, 14400, 14600, 14800,
              15000, 15200, 15400, 15600, 15800>> >>]

TestSensorData ==
    [i \in 1..3 |-> [p \in Params |-> TestWindows[p][i]]]

TestModelOutputs ==
    <<  [lstm |-> [forecast |-> [temperature |-> 670, vibration |-> 33, speed |-> 11010]],
         random_forest |-> [pred |-> 0, label |-> "normal"],
         isolation_forest |-> [pred |-> 1, score |-> 5]],
        [lstm |-> [forecast |-> [temperature |-> 930, vibration |-> 75, speed |-> 12500]],
         random_forest |-> [pred |-> 1, label |-> "warning"],
         isolation_forest |-> [pred |-> -1, score |-> -8]],
        [lstm |-> [forecast |-> [temperature |-> 1070, vibration |-> 150, speed |-> 16000]],
         random_forest |-> [pred |-> 2, label |-> "critical"],
         isolation_forest |-> [pred |-> -1, score |-> -15]] >>

Questions == {<<>>, Q_HowIsTheMachine, Q_WhatsTheRisk}

\* A value well inside the normal band of a parameter.
Low(p) == InitThresholds[p].normal \div 2

\* The values at and just below each band's lower bound.
BandValues(p) ==
    UNION {{InitThresholds[p][b] - 1, InitThresholds[p][b]} :
              b \in {"normal", "high", "critical"}}

\* n samples of v
Flat(n, v) == [i \in 1..n |-> v]

\* Every window of at most MaxLen samples over the band values and NaN.
FocusWindows(p) ==
    UNION {[1..n -> BandValues(p) \cup {NaN}] : n \in 0..MaxLen}

\* Windows long enough for every analysis step: the test windows, a single
\* normal reading, a jump from low to the critical bound, a fall from the
\* critical bound to low, a steady reading at the high bound, and no reading.
Catalogue(p) ==
    {TestWindows[p][i] : i \in 1..3}
    \cup {<<Low(p)>>,
          Flat(4, Low(p)) \o <<InitThresholds[p].critical>>,
          Flat(4, InitThresholds[p].critical) \o <<Low(p)>>,
          Flat(5, InitThresholds[p].high),
          <<>>}

\* A dictionary from three optional windows (<<>> absent, <<w>> present).
MkSensorData(t, v, s) ==
    LET opt == [temperature |-> t, vibration |-> v, speed |-> s]
    IN  [p \in {q \in Params : opt[q] # <<>>} |-> opt[p][1]]

Optional(S) == {<<>>} \cup {<<w>> : w \in S}

CatalogueSensorData ==
    {MkSensorData(t, v, s) : t \in Optional(Catalogue("temperature")),
                             v \in Optional(Catalogue("vibration")),
                             s \in Optional(Catalogue("speed"))}

\* One parameter alone, with any short window.
FocusSensorData ==
    UNION {{MkSensorData(IF p = "temperature" THEN <<w>> ELSE <<>>,
                         IF p = "vibration" THEN <<w>> ELSE <<>>,
                         IF p = "speed" THEN <<w>> ELSE <<>>) : w \in FocusWindows(p)}
           : p \in Params}

\* Outputs of the three models: each section absent, as in a test, or with
\* a field missing or at odds with another.
LstmOutputs == {<<>>, <<TestModelOutputs[3].lstm>>}

RfOutputs ==
    {<<>>} \cup {<<TestModelOutputs[i].random_forest>> : i \in 1..3}
    \cup {<<[pred |-> 0, label |-> "critical"]>>, <<[label |-> "critical"]>>}

IsoOutputs ==
    {<<>>} \cup {<<TestModelOutputs[i].isolation_forest>> : i \in 1..3}
    \cup {<<[pred |-> -1, score |-> -3]>>, <<[pred |-> -1]>>,
          <<[pred |-> 1, score |-> -15]>>}

MkModelOutputs(l, r, i) ==
    LET opt == [lstm |-> l, random_forest |-> r, isolation_forest |-> i]
    IN  [m \in {k \in {"lstm", "random_forest", "isolation_forest"} : opt[k] # <<>>}
            |-> opt[m][1]]

ModelOutputs ==
    {MkModelOutputs(l, r, i) : l \in LstmOutputs, r \in RfOutputs, i \in IsoOutputs}

\* What one evaluation may be given.
EvalInputs ==
    (CatalogueSensorData \X ModelOutputs \X {<<>>})
    \cup (FocusSensorData \X {TestModelOutputs[1], TestModelOutputs[3]} \X Questions)

\* What a session's calls are given: the calls of the test script, and
\* calls with a parameter or every input missing.
SessionInputs ==
    ({TestSensorData[i] : i \in 1..3}
       \cup {[temperature |-> TestWindows.temperature[3]], <<>>})
    \X {TestModelOutputs[1], TestModelOutputs[3], <<>>}
    \X {<<>>, Q_WhatsTheRisk}

\* The questions the test scripts ask, and the one the routing rule is
\* illustrated with.
TestQuestions ==
    {Q_HowIsTheMachine, Q_WhatsTheTemperature, Q_WhatsTheRisk, Q_AnyAnomalies,
     Q_ShowForecast, Q_Recommendations, Q_WhatAreTheTrends,
     Q_WhyIsTheTemperatureRising, Q_WhatShouldIDoAboutTheVibration,
     Q_WhatWillHappenNext, Q_AreTemperatureAndVibrationRelated,
     Q_WhyIsVibrationHigh}

Intents == DOMAIN Keywords

\* Every keyword as a question of its own.
KeywordTexts ==
    UNION {{Keywords[c][k] : k \in 1..Len(Keywords[c])} : c \in Intents}

\* The words questions are put together from: the first keyword of every
\* intent, that of the first intent in capitals, and two words that are no
\* keyword.
Vocabulary ==
    {Keywords[c][1] : c \in Intents}
    \cup {<<"T", "E", "M", "P", "E", "R", "A", "T", "U", "R", "E">>,
          <<"m", "a", "c", "h", "i", "n", "e">>, <<"o", "k", "?">>}

\* The texts of at most n words of the vocabulary, separated by a blank.
RECURSIVE WordTexts(_)
WordTexts(n) ==
    IF n = 0 THEN {<<>>}
    ELSE WordTexts(n - 1)
         \cup Vocabulary
         \cup {t \o <<" ">> \o w : t \in WordTexts(n - 1) \ {<<>>}, w \in Vocabulary}

AskTexts == TestQuestions \cup KeywordTexts \cup WordTexts(MaxWords)

\* One question of every intent, and no question.
IntentQuestions == {Keywords[c][1] : c \in Intents} \cup {<<>>}

\* Outputs of the three models with every section and every field present
\* or absent; {} is <<>>.
AskLstmOutputs ==
    {<<>>, << <<>> >>, <<[forecast |-> <<>>]>>,
     <<[forecast |-> [temperature |-> 930]]>>, <<TestModelOutputs[3].lstm>>}

AskRfOutputs ==
    {<<>>, << <<>> >>}
    \cup {<<[pred |-> p]>> : p \in {0, 1, 2}}
    \cup {<<[label |-> l]>> : l \in {"normal", "warning", "critical"}}
    \cup {<<[pred |-> p, label |-> l]>> :
             p \in {0, 1, 2}, l \in {"normal", "warning", "critical"}}

\* Scores in hundredths, on and next to the bounds -0.10 and -0.05.
AskIsoScores == {0 - 15, 0 - 11, 0 - 10, 0 - 6, 0 - 5, 0 - 3, 0, 5}

AskIsoOutputs ==
    {<<>>, << <<>> >>}
    \cup {<<[pred |-> p]>> : p \in {0 - 1, 1}}
    \cup {<<[score |-> s]>> : s \in {0 - 15}}
    \cup {<<[pred |-> p, score |-> s]>> : p \in {0 - 1, 1}, s \in AskIsoScores}

AskModelOutputs ==
    {MkModelOutputs(l, r, i) : l \in AskLstmOutputs, r \in AskRfOutputs,
                               i \in AskIsoOutputs}

\* Windows with any of the parameters absent or empty.
AskSensorData ==
    {MkSensorData(t, v, s) : t \in Optional({<<>>, TestWindows.temperature[1]}),
                             v \in Optional({<<>>, TestWindows.vibration[2]}),
                             s \in Optional({<<>>, TestWindows.speed[3]})}

\* What a question may be asked about: any text about the readings of a
\* test, a question of every intent about any model outputs, and a question
\* of every intent about windows with parameters missing.
AskInputs ==
    ({TestSensorData[2]} \X {TestModelOutputs[2]} \X AskTexts)
    \cup ({TestSensorData[3], <<>>} \X AskModelOutputs \X IntentQuestions)
    \cup (AskSensorData \X {TestModelOutputs[1], <<>>} \X IntentQuestions)

\* The steady reading of a detector window: a round value of the normal band.
DetectBase ==
    [temperature |-> 500, vibration |-> 10, speed |-> 10000]

\* The last sample of a detector window: 0.6 to 2.0 times the steady reading
\* (on and around the ratios 0.7, 1.3 and 1.5), a value at or next to the
\* high bound, or three units above the steady reading (after four steady
\* samples a slope of 0.6 per sample).
DetectLast(p) ==
    {(DetectBase[p] * k) \div 10 : k \in {6, 7, 8, 10, 12, 13, 14, 15, 16, 20}}
    \cup {InitThresholds[p].high - 1, InitThresholds[p].high,
          InitThresholds[p].high + 1}
    \cup {DetectBase[p] + 30}

\* Windows of the detector: n steady samples and a last one, and the same
\* after one sample ten times the steady reading.
DetectWindows(p) ==
    {Flat(n, DetectBase[p]) \o <<c>> : n \in 3..MaxBefore, c \in DetectLast(p)}
    \cup {<<10 * DetectBase[p]>> \o Flat(4, DetectBase[p]) \o <<c>> : c \in DetectLast(p)}

\* Temperature and vibration together, or speed alone.
DetectSensorData ==
    {MkSensorData(t, v, <<>>) : t \in Optional(DetectWindows("temperature")),
                                v \in Optional(DetectWindows("vibration"))}
    \cup {MkSensorData(<<>>, <<>>, <<w>>) : w \in DetectWindows("speed")}

(***************************************************************************)
(* Actions                                                                 *)
(***************************************************************************)

\* A caller invokes analyze(sd, ml, q) on the instance.
Call(sd, ml, q) ==
    /\ pc \in {"idle", "returned"}
    /\ Len(conversation_history) < MaxHistory
    /\ sensor_data' = sd
    /\ ml_outputs' = ml
    /\ question' = q
    /\ result' = <<>>
    /\ pc' = "called"
    /\ UNCHANGED <<thresholds, conversation_history, last_analysis, previous, threads>>

\* analyze runs to completion: it returns, or an exception leaves it.
Return ==
    /\ pc = "called"
    /\ \E out \in {analyze(Self, sensor_data, ml_outputs, question)} :
           /\ conversation_history' = out.self.conversation_history
           /\ last_analysis' = out.self.last_analysis
           /\ thresholds' = out.self.thresholds
           /\ result' = IF out.raised THEN <<>> ELSE <<out.ret>>
           /\ pc' = IF out.raised THEN "raised" ELSE "returned"
    /\ UNCHANGED <<sensor_data, ml_outputs, question, previous, threads>>

\* A session on one instance: construction, then any calls.
Init ==
    /\ thresholds = InitThresholds
    /\ conversation_history = <<>>
    /\ last_analysis = <<>>
    /\ sensor_data = <<>>
    /\ ml_outputs = <<>>
    /\ question = <<>>
    /\ result = <<>>
    /\ previous = <<>>
    /\ pc = "idle"
    /\ threads = <<>>

Next ==
    \/ \E in \in SessionInputs : Call(in[1], in[2], in[3])
    \/ Return

Spec == Init /\ [][Next]_vars

\* One evaluation on a fresh instance, for every input of EvalInputs.
InitEval ==
    /\ thresholds = InitThresholds
    /\ conversation_history = <<>>
    /\ last_analysis = <<>>
    /\ \E in \in EvalInputs :
          /\ sensor_data = in[1]
          /\ ml_outputs = in[2]
          /\ question = in[3]
    /\ result = <<>>
    /\ previous = <<>>
    /\ pc = "called"
    /\ threads = <<>>

NextEval == Return

SpecEval == InitEval /\ [][NextEval]_vars

\* Two evaluations that differ in one parameter's window only: the window
\* is n samples of v1 in the first and n samples of a value of a higher band
\* in the second.
MonoValues(p) ==
    {0 - 10, Low(p), InitThresholds[p].normal, InitThresholds[p].high,
     InitThresholds[p].critical}

BandRank(status) ==
    IF status = "critical" THEN 3
    ELSE IF status = "high" THEN 2
    ELSE IF status = "warning" THEN 1
    ELSE 0

\* What the other parameters' windows are in such a pair.
MonoBases ==
    {TestSensorData[1], TestSensorData[3],
     [q \in Params |-> Flat(5, InitThresholds[q].high + 10)],
     [q \in Params |-> <<Low(q)>>],
     <<>>}

InitMono ==
    /\ thresholds = InitThresholds
    /\ conversation_history = <<>>
    /\ last_analysis = <<>>
    /\ \E p \in Params, n \in 1..MaxFlat, base \in MonoBases :
       \E v1 \in MonoValues(p) :
          sensor_data = [q \in DOMAIN base \cup {p} |->
                            IF q = p THEN Flat(n, v1) ELSE base[q]]
    /\ ml_outputs \in {TestModelOutputs[1], TestModelOutputs[2], <<>>}
    /\ question = <<>>
    /\ result = <<>>
    /\ previous = <<>>
    /\ pc = "called"
    /\ threads = <<>>

\* The caller repeats the call with parameter p's window moved to a higher
\* band, everything else as it was.
CallRaised(p, v2) ==
    /\ pc = "returned"
    /\ previous = <<>>
    /\ p \in DOMAIN sensor_data
    /\ sensor_data[p] # <<>>
    /\ sensor_data[p] = Flat(Len(sensor_data[p]), sensor_data[p][1])
    /\ BandRank(StatusOf(thresholds[p], v2))
         > BandRank(StatusOf(thresholds[p], sensor_data[p][1]))
    /\ previous' = <<[sensor_data |-> sensor_data, ml_outputs |-> ml_outputs,
                      question |-> question, parameter |-> p, ret |-> result[1]]>>
    /\ sensor_data' = [sensor_data EXCEPT ![p] = Flat(Len(sensor_data[p]), v2)]
    /\ result' = <<>>
    /\ pc' = "called"
    /\ UNCHANGED <<thresholds, conversation_history, last_analysis, ml_outputs, question,
                   threads>>

NextMono ==
    \/ Return
    \/ \E p \in Params : \E v2 \in MonoValues(p) : CallRaised(p, v2)

SpecMono == InitMono /\ [][NextMono]_vars

\* One question asked of a fresh instance, for every input of AskInputs.
InitAsk ==
    /\ thresholds = InitThresholds
    /\ conversation_history = <<>>
    /\ last_analysis = <<>>
    /\ \E in \in AskInputs :
          /\ sensor_data = in[1]
          /\ ml_outputs = in[2]
          /\ question = in[3]
    /\ result = <<>>
    /\ previous = <<>>
    /\ pc = "called"
    /\ threads = <<>>

NextAsk == Return

SpecAsk == InitAsk /\ [][NextAsk]_vars

\* One evaluation of a detector window on a fresh instance, with no model
\* outputs and no question.
InitDetect ==
    /\ thresholds = InitThresholds
    /\ conversation_history = <<>>
    /\ last_analysis = <<>>
    /\ sensor_data \in DetectSensorData
    /\ ml_outputs = <<>>
    /\ question = <<>>
    /\ result = <<>>
    /\ previous = <<>>
    /\ pc = "called"
    /\ threads = <<>>

NextDetect == Return

SpecDetect == InitDetect /\ [][NextDetect]_vars

\* Callers that run analyze on the one instance at the same time, without
\* locks.  Each has its arguments and the local variables of analyze; a step
\* is one statement of analyze, and the steps of the callers interleave in
\* any order.
ThreadIds == 1..MaxThreads

\* What the concurrent callers pass.
ConcInputs ==
    {<<TestSensorData[1], TestModelOutputs[1], Q_HowIsTheMachine>>,
     <<TestSensorData[3], TestModelOutputs[3], Q_WhatsTheRisk>>,
     <<[temperature |-> TestWindows.temperature[2]], <<>>, <<>>>>}

\* A caller about to execute the first statement; its locals are not yet
\* assigned.
NewThread(in) ==
    [pc                |-> "append",
     sensor_data       |-> in[1],
     ml_outputs        |-> in[2],
     question          |-> in[3],
     current_state     |-> <<>>,
     trends            |-> <<>>,
     ml_interpretation |-> <<>>,
     anomalies         |-> <<>>,
     risk_assessment   |-> <<>>,
     recommendations   |-> <<>>,
     correlations      |-> <<>>,
     response          |-> <<>>,
     result            |-> <<>>]

\* Thread t, at position at, assigns value to its local and moves to next.
Assign(t, at, local, value, next) ==
    /\ threads[t].pc = at
    /\ threads' = [threads EXCEPT ![t] = [@ EXCEPT ![local] = value, !.pc = next]]

\* self.conversation_history.append(...) when the question is not empty.
T_Append(t) ==
    /\ threads[t].pc = "append"
    /\ conversation_history' =
          IF threads[t].question # <<>>
          THEN Append(conversation_history,
                      HistoryEntry(threads[t].sensor_data, threads[t].question))
          ELSE conversation_history
    /\ threads' = [threads EXCEPT ![t].pc = "extract"]
    /\ UNCHANGED <<thresholds, last_analysis, sensor_data, ml_outputs, question,
                   result, previous, pc>>

T_Extract(t) ==
    /\ Assign(t, "extract", "current_state",
              _extract_current_state(Self, threads[t].sensor_data), "trends")
    /\ UNCHANGED <<thresholds, conversation_history, last_analysis, sensor_data,
                   ml_outputs, question, result, previous, pc>>

T_Trends(t) ==
    /\ Assign(t, "trends", "trends",
              _analyze_trends(Self, threads[t].sensor_data), "interpret")
    /\ UNCHANGED <<thresholds, conversation_history, last_analysis, sensor_data,
                   ml_outputs, question, result, previous, pc>>

T_Interpret(t) ==
    /\ Assign(t, "interpret", "ml_interpretation",
              _interpret_ml_outputs(Self, threads[t].ml_outputs,
                                    threads[t].current_state), "detect")
    /\ UNCHANGED <<thresholds, conversation_history, last_analysis, sensor_data,
                   ml_outputs, question, result, previous, pc>>

T_Detect(t) ==
    /\ Assign(t, "detect", "anomalies",
              _detect_anomalies(Self, threads[t].sensor_data, threads[t].ml_outputs),
              "assess")
    /\ UNCHANGED <<thresholds, conversation_history, last_analysis, sensor_data,
                   ml_outputs, question, result, previous, pc>>

T_Assess(t) ==
    /\ Assign(t, "assess", "risk_assessment",
              _assess_risk(Self, threads[t].current_state, threads[t].trends,
                           threads[t].ml_interpretation, threads[t].anomalies),
              "recommend")
    /\ UNCHANGED <<thresholds, conversation_history, last_analysis, sensor_data,
                   ml_outputs, question, result, previous, pc>>

T_Recommend(t) ==
    /\ Assign(t, "recommend", "recommendations",
              _generate_recommendations(Self, threads[t].risk_assessment,
                                        threads[t].current_state, threads[t].trends),
              "correlate")
    /\ UNCHANGED <<thresholds, conversation_history, last_analysis, sensor_data,
                   ml_outputs, question, result, previous, pc>>

T_Correlate(t) ==
    /\ Assign(t, "correlate", "correlations",
              _analyze_correlations(Self, threads[t].sensor_data), "respond")
    /\ UNCHANGED <<thresholds, conversation_history, last_analysis, sensor_data,
                   ml_outputs, question, result, previous, pc>>

\* The sub-results a thread holds in its locals.
LocalAnalysis(t) ==
    [current_state     |-> threads[t].current_state,
     trends            |-> threads[t].trends,
     ml_interpretation |-> threads[t].ml_interpretation,
     anomalies         |-> threads[t].anomalies,
     risk_assessment   |-> threads[t].risk_assessment,
     recommendations   |-> threads[t].recommendations,
     correlations      |-> threads[t].correlations]

\* response = self._build_response(...): an exception ends the call here.
T_Respond(t) ==
    /\ threads[t].pc = "respond"
    /\ \E r \in {ResponseOf(Self, threads[t].question, LocalAnalysis(t))} :
          threads' = [threads EXCEPT ![t] =
                         IF Raised(r) THEN [@ EXCEPT !.pc = "raised"]
                         ELSE [@ EXCEPT !.response = r, !.pc = "store"]]
    /\ UNCHANGED <<thresholds, conversation_history, last_analysis, sensor_data,
                   ml_outputs, question, result, previous, pc>>

\* self.last_analysis = {...}
T_Store(t) ==
    /\ threads[t].pc = "store"
    /\ last_analysis' = <<LocalAnalysis(t)>>
    /\ threads' = [threads EXCEPT ![t].pc = "return"]
    /\ UNCHANGED <<thresholds, conversation_history, sensor_data, ml_outputs,
                   question, result, previous, pc>>

\* return {...}
T_Return(t) ==
    /\ Assign(t, "return", "result",
              <<Returns(threads[t].response, LocalAnalysis(t))>>, "returned")
    /\ UNCHANGED <<thresholds, conversation_history, last_analysis, sensor_data,
                   ml_outputs, question, result, previous, pc>>

InitConc ==
    /\ thresholds = InitThresholds
    /\ conversation_history = <<>>
    /\ last_analysis = <<>>
    /\ sensor_data = <<>>
    /\ ml_outputs = <<>>
    /\ question = <<>>
    /\ result = <<>>
    /\ previous = <<>>
    /\ pc = "idle"
    /\ threads \in [ThreadIds -> {NewThread(in) : in \in ConcInputs}]

NextConc ==
    \E t \in ThreadIds :
        \/ T_Append(t)
        \/ T_Extract(t)
        \/ T_Trends(t)
        \/ T_Interpret(t)
        \/ T_Detect(t)
        \/ T_Assess(t)
        \/ T_Recommend(t)
        \/ T_Correlate(t)
        \/ T_Respond(t)
        \/ T_Store(t)
        \/ T_Return(t)

SpecConc == InitConc /\ [][NextConc]_vars

(***************************************************************************)
(* Properties                                                              *)
(***************************************************************************)

\* The value the call in hand returned.
Returned == pc = "returned" /\ result # <<>>

Ret == result[1]

\* C1: the returned risk score is an integer from 0 to 100 and the level is
\* the band of that score: critical iff score >= 70, high iff 50 <= score <
\* 70, medium iff 30 <= score < 50, low iff 10 <= score < 30, normal iff
\* score < 10.
C1_ScoreRangeAndLevel ==
    Returned =>
        LET r == Ret.risk_assessment
        IN  /\ r.score \in 0..100
            /\ (r.level = "critical") <=> (r.score >= 70)
            /\ (r.level = "high")     <=> (50 <= r.score /\ r.score < 70)
            /\ (r.level = "medium")   <=> (30 <= r.score /\ r.score < 50)
            /\ (r.level = "low")      <=> (10 <= r.score /\ r.score < 30)
            /\ (r.level = "normal")   <=> (r.score < 10)

\* A call returned a score exactly on a band's lower bound.
C1_Witness ==
    Returned /\ Ret.risk_assessment.score = 70 /\ Ret.risk_assessment.level = "critical"

\* The sum the claim C2 describes, read off the returned sub-results.
ClaimedStatePoints(p) ==
    IF p \notin DOMAIN Ret.current_state THEN 0
    ELSE CASE Ret.current_state[p].status = "critical" -> 30
           [] Ret.current_state[p].status = "high"     -> 20
           [] Ret.current_state[p].status = "warning"  -> 10
           [] OTHER -> 0

ClaimedTrendPoints(p) ==
    IF Ret.trends[p].direction = "rising"
       /\ Ret.trends[p].strength.num > 5 * Ret.trends[p].strength.den
    THEN 15 ELSE 0

ClaimedModelPoints ==
    (IF "random_forest" \in DOMAIN Ret.ml_interpretation
     THEN CASE Ret.ml_interpretation.random_forest.risk_level = "critical" -> 25
            [] Ret.ml_interpretation.random_forest.risk_level = "warning"  -> 15
            [] OTHER -> 0
     ELSE 0)
    + (IF "isolation_forest" \in DOMAIN Ret.ml_interpretation
       THEN CASE Ret.ml_interpretation.isolation_forest.severity = "critical" -> 20
              [] Ret.ml_interpretation.isolation_forest.severity = "high"   -> 10
              [] Ret.ml_interpretation.isolation_forest.severity = "medium" -> 10
              [] OTHER -> 0
       ELSE 0)

ClaimedAnomalyPoints ==
    15 * Cardinality({i \in 1..Len(Ret.anomalies) : Ret.anomalies[i].severity = "critical"})
    + 10 * Cardinality({i \in 1..Len(Ret.anomalies) : Ret.anomalies[i].severity = "high"})

ClaimedSum ==
    ClaimedStatePoints("temperature") + ClaimedStatePoints("vibration")
    + ClaimedStatePoints("speed")
    + ClaimedTrendPoints("temperature") + ClaimedTrendPoints("vibration")
    + ClaimedTrendPoints("speed")
    + ClaimedModelPoints + ClaimedAnomalyPoints

\* C2: the score is min(100, S), S the sum of +30/+20/+10 per parameter in
\* the critical/high/warning band, +15 per parameter rising with strength
\* above 5, +25/+15 for a critical/warning classification, +20 for a
\* critical and +10 for a high or medium model anomaly, and +15/+10/0 per
\* detected anomaly of severity critical/high/medium.
C2_ScoreIsCappedSum ==
    Returned =>
        Ret.risk_assessment.score = (IF ClaimedSum > 100 THEN 100 ELSE ClaimedSum)

\* A call whose score is under the cap and got points from a band, a
\* trend, a model and a detected anomaly, with a medium anomaly in the list.
C2_Witness ==
    /\ Returned
    /\ ClaimedSum < 100
    /\ ClaimedStatePoints("temperature") > 0
    /\ ClaimedTrendPoints("temperature") > 0
    /\ ClaimedModelPoints > 0
    /\ ClaimedAnomalyPoints > 0
    /\ \E i \in 1..Len(Ret.anomalies) : Ret.anomalies[i].severity = "medium"

PriorityRank(priority) ==
    CASE priority = "immediate" -> 3
      [] priority = "high"      -> 2
      [] priority = "medium"    -> 1
      [] OTHER                  -> 0

\* C3: the returned recommendations are ordered by priority: no card
\* precedes a card of a more urgent priority.
C3_RecommendationsOrdered ==
    Returned =>
        \A i, j \in 1..Len(Ret.recommendations) :
            i < j => PriorityRank(Ret.recommendations[i].priority)
                       >= PriorityRank(Ret.recommendations[j].priority)

\* The inputs of the healthy scenario: windows around 66 degrees, 3.2 mm/s
\* and 1100 RPM, label normal, anomaly model not flagged with score 0.05.
HealthyScenario ==
    /\ sensor_data = TestSensorData[1]
    /\ "random_forest" \in DOMAIN ml_outputs
    /\ ml_outputs.random_forest = [pred |-> 0, label |-> "normal"]
    /\ "isolation_forest" \in DOMAIN ml_outputs
    /\ ml_outputs.isolation_forest = [pred |-> 1, score |-> 5]

\* C4: in the healthy scenario the risk level is normal, the factors list
\* is empty and the recommendations are exactly one low-priority
\* routine-maintenance card.
C4_HealthyScenarioIsNormal ==
    (Returned /\ HealthyScenario) =>
        /\ Ret.risk_assessment.level = "normal"
        /\ Ret.risk_assessment.factors = <<>>
        /\ Ret.recommendations = <<RoutineCard>>

\* The inputs of the critical-fusion scenario: temperature rising from 85
\* to 105, vibration from 7 to 14, label critical, anomaly model flagged
\* with score -0.15; the speed window is any.
CriticalScenario ==
    /\ "temperature" \in DOMAIN sensor_data
    /\ sensor_data.temperature = TestWindows.temperature[3]
    /\ "vibration" \in DOMAIN sensor_data
    /\ sensor_data.vibration = TestWindows.vibration[3]
    /\ "random_forest" \in DOMAIN ml_outputs
    /\ Get(ml_outputs.random_forest, "label", "unknown") = "critical"
    /\ "isolation_forest" \in DOMAIN ml_outputs
    /\ ml_outputs.isolation_forest = [pred |-> -1, score |-> -15]

HasImmediateCardFor(p) ==
    \E i \in 1..Len(Ret.recommendations) :
        /\ Ret.recommendations[i].priority = "immediate"
        /\ Ret.recommendations[i].action = CardText[p].critical.action

\* C5: in the critical-fusion scenario the risk level is critical, the
\* score is exactly 100, and the recommendations hold the emergency-shutdown
\* card, an immediate temperature card and an immediate vibration card.
C5_CriticalScenario ==
    (Returned /\ CriticalScenario) =>
        /\ Ret.risk_assessment.level = "critical"
        /\ Ret.risk_assessment.score = 100
        /\ \E i \in 1..Len(Ret.recommendations) : Ret.recommendations[i] = EmergencyCard
        /\ HasImmediateCardFor("temperature")
        /\ HasImmediateCardFor("vibration")

\* The critical scenario was evaluated with the classifier's prediction
\* code missing and no speed window: the least the scenario can score.
C5_Witness ==
    /\ Returned
    /\ CriticalScenario
    /\ "pred" \notin DOMAIN ml_outputs.random_forest
    /\ "speed" \notin DOMAIN sensor_data
    /\ Ret.risk_assessment.score = 100

\* C6: whatever calls came before on the instance, a call returns the risk
\* score, level, factors and recommendations that the same call returns on
\* a fresh instance.
C6_SameAsOnFreshInstance ==
    Returned =>
        LET fresh == analyze(FreshSelf, sensor_data, ml_outputs, question).ret
        IN  /\ Ret.risk_assessment.score = fresh.risk_assessment.score
            /\ Ret.risk_assessment.level = fresh.risk_assessment.level
            /\ Ret.risk_assessment.factors = fresh.risk_assessment.factors
            /\ Ret.recommendations = fresh.recommendations

\* A call returned on an instance that holds two earlier questions, the
\* first asked about other readings, and an earlier analysis.
C6_Witness ==
    /\ Returned
    /\ Len(conversation_history) >= 2
    /\ question # <<>>
    /\ conversation_history[1].sensor_snapshot
         # conversation_history[Len(conversation_history)].sensor_snapshot
    /\ Ret.risk_assessment.score < 100

\* C7: of two evaluations that differ only in one parameter's window, held
\* at one value in the first and, over the same number of samples, at a
\* value of a higher band in the second, the second's risk score is not
\* lower.
C7_Monotone ==
    (Returned /\ previous # <<>>) =>
        Ret.risk_assessment.score >= previous[1].ret.risk_assessment.score

\* Such a pair where the first evaluation got points for a spike on the
\* window that was then raised, and the second scored more, under the cap.
C7_Witness ==
    /\ Returned
    /\ previous # <<>>
    /\ \E i \in 1..Len(previous[1].ret.anomalies) :
          previous[1].ret.anomalies[i].parameter = previous[1].parameter
    /\ Ret.risk_assessment.score > previous[1].ret.risk_assessment.score
    /\ Ret.risk_assessment.score < 100

\* The last clean sample of the window of p.
CurrentOf(p) == Clean(sensor_data[p])[Len(Clean(sensor_data[p]))]

\* C8: for every parameter, the status is critical iff current >= critical
\* bound, high iff high bound <= current < critical bound, warning iff
\* normal bound <= current < high bound, normal iff current < normal bound,
\* current being the last sample of the window.
C8_BandAtOrAbove ==
    Returned =>
        \A p \in DOMAIN Ret.current_state :
            LET c  == Ret.current_state[p].current
                st == Ret.current_state[p].status
                th == thresholds[p]
            IN  /\ c = CurrentOf(p)
                /\ (st = "critical") <=> (c >= th.critical)
                /\ (st = "high")     <=> (th.high <= c /\ c < th.critical)
                /\ (st = "warning")  <=> (th.normal <= c /\ c < th.high)
                /\ (st = "normal")   <=> (c < th.normal)

\* A reading exactly on the normal bound was classified warning.
C8_Witness ==
    /\ Returned
    /\ \E p \in DOMAIN Ret.current_state :
          /\ Ret.current_state[p].current = thresholds[p].normal
          /\ Ret.current_state[p].status = "warning"

\* A temperature window whose last sample is exactly 85.
TemperatureAt85 ==
    /\ "temperature" \in DOMAIN sensor_data
    /\ sensor_data.temperature # <<>>
    /\ sensor_data.temperature[Len(sensor_data.temperature)] = 850

NaNFree(w) == \A i \in 1..Len(w) : ~isnan(w[i])

\* C10: a NaN-free window of 1 or 2 samples yields direction unknown with
\* strength 0, and a NaN-free window of 3 or more never yields unknown: it
\* yields rising, falling or stable.
C10_TrendMinimumData ==
    Returned =>
        \A p \in DOMAIN sensor_data :
            NaNFree(sensor_data[p]) =>
                /\ Len(sensor_data[p]) \in {1, 2} =>
                      /\ Ret.trends[p].direction = "unknown"
                      /\ Ret.trends[p].strength.num = 0
                /\ Len(sensor_data[p]) >= 3 =>
                      Ret.trends[p].direction \in {"rising", "falling", "stable"}

\* A NaN-free window of exactly 3 samples got a falling trend.
C10_Witness ==
    /\ Returned
    /\ \E p \in DOMAIN sensor_data :
          /\ NaNFree(sensor_data[p])
          /\ Len(sensor_data[p]) = 3
          /\ Ret.trends[p].direction = "falling"

\* The call in hand ended with an exception.
Failed == pc = "raised"

\* The order of the categories as claim C11 lists them.
ClaimedOrder ==
    <<"temperature", "vibration", "speed", "anomaly", "forecast", "risk",
      "recommendation", "health", "trend", "why", "comparison", "correlation">>

\* A keyword of category c occurs in the lower-cased text.
KeywordOccurs(c, text) ==
    \E k \in 1..Len(Keywords[c]) : Occurs(Keywords[c][k], Lower(text))

\* The category C11 claims for a text: the first in the claimed order with a
\* keyword in the text, comprehensive if there is none.
ClaimedIntent(text) ==
    IF \A i \in 1..Len(ClaimedOrder) : ~KeywordOccurs(ClaimedOrder[i], text)
    THEN "comprehensive"
    ELSE ClaimedOrder[CHOOSE i \in 1..Len(ClaimedOrder) :
                         /\ KeywordOccurs(ClaimedOrder[i], text)
                         /\ \A j \in 1..(i - 1) : ~KeywordOccurs(ClaimedOrder[j], text)]

C12_NoExceptionForMissingModelData == ~Failed

\* The window of parameter p is absent or empty in the call in hand.
Missing(p) == p \notin DOMAIN sensor_data \/ sensor_data[p] = <<>>

\* C13: a parameter whose window is absent or empty has no key in the
\* returned current_state map and no key in the returned trends map.
C13_MissingParameterOmitted ==
    Returned =>
        \A p \in Params :
            Missing(p) => /\ p \notin DOMAIN Ret.current_state
                          /\ p \notin DOMAIN Ret.trends

\* The snapshot of the history entry the call in hand appended.
LastSnapshot == conversation_history[Len(conversation_history)].sensor_snapshot

\* C14: for a parameter whose window is absent or empty, the history
\* snapshot does not record 0 for it, no recommendation reason quotes 0 for
\* it, and the answer to a question about it neither reports the value 0 nor
\* states that it is within normal range.
C14_MissingNeverZero ==
    Returned =>
        \A p \in Params :
            Missing(p) =>
                /\ (question # <<>> /\ p \in DOMAIN LastSnapshot) => LastSnapshot[p] # 0
                /\ \A i \in 1..Len(Ret.recommendations) :
                      ~(/\ Len(Ret.recommendations[i].reason) = 3
                        /\ Ret.recommendations[i].reason[1] = p
                        /\ Ret.recommendations[i].reason[2] = 0)
                /\ Ret.response.heading = Heading[p] =>
                      /\ Ret.response.current # 0
                      /\ Ret.response.verdict # VerdictText[p].other

\* C15: when the classifier's output carries the label normal, warning or
\* critical, the interpreted random_forest risk_level equals that label,
\* whatever the prediction code is.
C15_RiskMirrorsLabel ==
    (/\ Returned
     /\ "random_forest" \in DOMAIN Ret.ml_interpretation
     /\ "label" \in DOMAIN ml_outputs.random_forest
     /\ ml_outputs.random_forest.label \in {"normal", "warning", "critical"})
    => Ret.ml_interpretation.random_forest.risk_level = ml_outputs.random_forest.label

\* C16: when the anomaly model does not flag an anomaly the interpreted
\* severity is normal for every score; when it flags one, the severity is
\* critical iff score < -0.10, high iff -0.10 <= score < -0.05, and medium
\* otherwise, a missing score included.
C16_AnomalySeverity ==
    (Returned /\ "isolation_forest" \in DOMAIN Ret.ml_interpretation) =>
        LET iso      == ml_outputs.isolation_forest
            severity == Ret.ml_interpretation.isolation_forest.severity
            has      == "score" \in DOMAIN iso
        IN  IF iso.pred # 0 - 1
            THEN severity = "normal"
            ELSE /\ (severity = "critical") <=> (has /\ iso.score < 0 - 10)
                 /\ (severity = "high")
                      <=> (has /\ 0 - 10 <= iso.score /\ iso.score < 0 - 5)
                 /\ (severity = "medium") <=> (~has \/ iso.score >= 0 - 5)

\* A flagged anomaly with score exactly -0.10 was interpreted as high.
C16_Witness ==
    /\ Returned
    /\ "isolation_forest" \in DOMAIN Ret.ml_interpretation
    /\ ml_outputs.isolation_forest = [pred |-> 0 - 1, score |-> 0 - 10]
    /\ Ret.ml_interpretation.isolation_forest.severity = "high"

\* What the call of thread t gives when it runs alone on a fresh instance.
Alone(t) ==
    analyze(FreshSelf, threads[t].sensor_data, threads[t].ml_outputs,
            threads[t].question)

\* C17: however the statements of the concurrent calls on the one instance
\* interleave, each call returns exactly what it returns when it runs
\* alone, so nothing in its result comes from another call's inputs.
C17_ConcurrentAsAlone ==
    \A t \in DOMAIN threads :
        threads[t].pc = "returned" =>
            /\ ~Alone(t).raised
            /\ threads[t].result = <<Alone(t).ret>>

\* Two calls with different inputs ran interleaved and both returned: the
\* first appended its history entry before the second did, and stored its
\* analysis after the second did.
C17_Witness ==
    /\ DOMAIN threads = {1, 2}
    /\ \A t \in DOMAIN threads : threads[t].pc = "returned"
    /\ threads[1].sensor_data # threads[2].sensor_data
    /\ Len(conversation_history) = 2
    /\ conversation_history[1].question = threads[1].question
    /\ conversation_history[2].question = threads[2].question
    /\ last_analysis[1].risk_assessment = threads[1].result[1].risk_assessment
    /\ threads[1].result[1].risk_assessment # threads[2].result[1].risk_assessment

\* C18: a call changes nothing on the instance but the conversation
\* history: thresholds and the stored analysis are the same after every
\* step as before it.
C18_OnlyHistoryChanges ==
    [][thresholds' = thresholds /\ last_analysis' = last_analysis]_vars

\* C19: the conversation history is bounded: its length stays below the
\* number of questions asked in a session.
C19_HistoryBounded == Len(conversation_history) < MaxHistory

\* The topic heading under which the tests ask each question.
TestTopic ==
    <<<<Q_AnyAnomalies, "anomaly">>,
      <<Q_ShowForecast, "forecast">>,
      <<Q_Recommendations, "recommendation">>,
      <<Q_WhatAreTheTrends, "trend">>,
      <<Q_AreTemperatureAndVibrationRelated, "correlation">>>>

\* C20: each question the tests ask under a topic heading is answered by
\* the handler of that topic.
C20_TestQuestionsRouted ==
    Returned =>
        \A i \in 1..Len(TestTopic) :
            question = TestTopic[i][1] =>
                Ret.response.heading = Heading[TestTopic[i][2]]

\* The spike and drop anomalies of parameter p in the returned list.
SpikesAndDrops(p) ==
    SelectSeq(Ret.anomalies,
              LAMBDA a : a.parameter = p /\ a.type \in {"spike", "drop"})

\* The last sample of window w, and four times the mean of the four before.
LastSample(w) == w[Len(w)]

SumBefore(w) == SeqSum(SubSeq(w, Len(w) - 4, Len(w) - 1))

CorrelatedFound ==
    SelectSeq(Ret.anomalies, LAMBDA a : a.type = "correlated")

\* Parameter p has at least five samples and the state extractor classifies
\* its most recent reading as high or critical.
HighBandOrAbove(p) ==
    /\ Len(Get(sensor_data, p, <<>>)) >= 5
    /\ p \in DOMAIN Ret.current_state
    /\ Ret.current_state[p].status \in {"high", "critical"}

\* C22: there is one correlated anomaly of severity critical whenever
\* temperature and vibration both have at least five samples and the most
\* recent reading of each is in the high band or above, and none otherwise.
C22_CorrelatedAnomaly ==
    Returned =>
        IF HighBandOrAbove("temperature") /\ HighBandOrAbove("vibration")
        THEN CorrelatedFound =
               <<[type |-> "correlated", parameter |-> "temperature_vibration",
                  severity |-> "critical"]>>
        ELSE CorrelatedFound = <<>>

\* Card c is the emergency-shutdown card.
IsEmergencyCard(c) ==
    /\ c.priority = "immediate"
    /\ c.category = "Safety"
    /\ c.action = "Emergency Shutdown Required"

\* C23: the emergency-shutdown card is the first recommendation whenever
\* the risk level is critical, whichever inputs produced the level, and no
\* recommendation is that card when the level is not critical.
C23_StandingCriticalCard ==
    Returned =>
        IF Ret.risk_assessment.level = "critical"
        THEN /\ Ret.recommendations # <<>>
             /\ IsEmergencyCard(Ret.recommendations[1])
        ELSE \A i \in 1..Len(Ret.recommendations) :
                 /\ ~IsEmergencyCard(Ret.recommendations[i])
                 /\ Ret.recommendations[i].category # "Safety"

\* A critical level that no critical reading produced, with the card first
\* and other cards after it.
C23_Witness ==
    /\ Returned
    /\ Ret.risk_assessment.level = "critical"
    /\ \A p \in DOMAIN Ret.current_state : Ret.current_state[p].status # "critical"
    /\ Len(Ret.recommendations) >= 2
    /\ IsEmergencyCard(Ret.recommendations[1])

\* Card c is the routine-maintenance card.
IsRoutineCard(c) ==
    /\ c.priority = "low"
    /\ c.action = "Routine Maintenance Schedule"
    /\ c.category = "Preventive Maintenance"

\* C24: when neither the emergency card nor a parameter card nor a trend
\* card is generated, the recommendations are exactly one low-priority
\* routine-maintenance card; so the list is never empty, at any risk level.
C24_RoutineFallback ==
    Returned =>
        /\ Ret.recommendations # <<>>
        /\ (\A i \in 1..Len(Ret.recommendations) :
               IsRoutineCard(Ret.recommendations[i]))
              => /\ Len(Ret.recommendations) = 1
                 /\ IsRoutineCard(Ret.recommendations[1])

\* The returned response is the comprehensive one.
Comprehensive(ret) == ret.response.heading = Heading.comprehensive

\* C25: the closing verdict of the comprehensive response is a function of
\* the risk level alone: an evaluation with the risk level of the one
\* before it gets the same verdict, and a risk level of medium, high or
\* critical never gets the verdict that the machine is healthy and
\* operating normally.
C25_ClosingByRiskLevel ==
    (Returned /\ Comprehensive(Ret)) =>
        /\ (/\ previous # <<>>
            /\ Comprehensive(previous[1].ret)
            /\ previous[1].ret.risk_assessment.level = Ret.risk_assessment.level)
              => previous[1].ret.response.closing = Ret.response.closing
        /\ Ret.risk_assessment.level \in {"medium", "high", "critical"}
              => Ret.response.closing
                   # "EXCELLENT: Machine is healthy and operating normally."

\* The response renders the recommendation list.
RendersCards(response) ==
    response.heading \in {Heading.recommendation, Heading.comprehensive}

\* The cards a response renders, in the order of the text.
Rendered(response) ==
    response.immediate \o response.high \o response.medium \o response.routine

\* C26: a response that renders the recommendations renders every card of
\* the list, the immediate ones first, then the high, the medium and the
\* low ones, each group whole.
C26_AllCardsRendered ==
    (Returned /\ RendersCards(Ret.response)) =>
        Rendered(Ret.response) =
            CardsOf(Ret.recommendations, "immediate")
              \o CardsOf(Ret.recommendations, "high")
              \o CardsOf(Ret.recommendations, "medium")
              \o CardsOf(Ret.recommendations, "low")

\* The sub-results of an analysis that a response may be built from.
SubResults ==
    {"current_state", "trends", "ml_interpretation", "anomalies",
     "risk_assessment", "recommendations", "correlations"}

\* For every sub-result, a value other than the one analysis a has when a
\* has anything to show there: nothing found, or the other status.
Blank(a) ==
    [current_state     |-> <<>>,
     trends            |-> [p \in Params |-> InsufficientData],
     ml_interpretation |-> <<>>,
     anomalies         |-> <<>>,
     risk_assessment   |-> [level |-> "normal", score |-> 0, factors |-> <<>>],
     recommendations   |-> <<>>,
     correlations      |-> IF a.correlations.status = "analyzed"
                           THEN [status |-> "insufficient_data"]
                           ELSE [status |-> "analyzed"]]

\* Analysis a with sub-result x blanked.
Without(a, x) ==
    [s \in SubResults |-> IF s = x THEN Blank(a)[s] ELSE a[s]]

\* The answer to question q reads sub-result x of analysis a: it is another
\* answer when x is blanked.
Reads(q, a, x) ==
    ResponseOf(Self, q, Without(a, x)) # ResponseOf(Self, q, a)

\* C27: the answer to a question of any topic intent is built only from
\* sub-results that the comprehensive response is built from as well: a
\* sub-result the answer reads is one the comprehensive response reads.
C27_IntentReadsSubsetOfComprehensive ==
    (Returned /\ ~Comprehensive(Ret)) =>
        \A x \in SubResults :
            Reads(question, Ret, x) => Reads(<<>>, Ret, x)

\* The returned recommendations hold the trend card of parameter p.
HasTrendCard(p) ==
    \E i \in 1..Len(Ret.recommendations) :
        /\ Ret.recommendations[i].category = "Trend Analysis"
        /\ Ret.recommendations[i].action = TrendAction[p]

\* The returned risk factors hold the rising-rapidly factor of parameter p.
HasTrendFactor(p) ==
    \E i \in 1..Len(Ret.risk_assessment.factors) :
        /\ Ret.risk_assessment.factors[i].kind = "rising rapidly"
        /\ Ret.risk_assessment.factors[i].parameter = p

\* C28: one threshold of strength, 5, decides for a rising trend the
\* wording "rising rapidly", the +15 risk factor and the trend card: for
\* every rising trend the three are all there (strength > 5) or all absent.
C28_OneRapidThreshold ==
    Returned =>
        \A p \in Params :
            Ret.trends[p].direction = "rising" =>
                /\ (Ret.trends[p].description = "is rising rapidly")
                      <=> FracGt(Ret.trends[p].strength, 5)
                /\ HasTrendFactor(p) <=> FracGt(Ret.trends[p].strength, 5)
                /\ HasTrendCard(p) <=> FracGt(Ret.trends[p].strength, 5)

\* C29: every risk point is explained by a factor: a score above 0 comes
\* with a factor, and without a factor the score is 0 and the level normal.
C29_ScoreExplainedByFactors ==
    Returned =>
        /\ Ret.risk_assessment.score > 0 => Ret.risk_assessment.factors # <<>>
        /\ Ret.risk_assessment.factors = <<>> =>
              /\ Ret.risk_assessment.score = 0
              /\ Ret.risk_assessment.level = "normal"

\* An evaluation has an immediate-priority recommendation.
HasImmediateCard ==
    \E i \in 1..Len(Ret.recommendations) :
        Ret.recommendations[i].priority = "immediate"

\* C30: when the recommendations hold an immediate-priority card, the risk
\* level is high or critical.
C30_ImmediateMeansHighRisk ==
    (Returned /\ HasImmediateCard) =>
        Ret.risk_assessment.level \in {"high", "critical"}

====
